---- MODULE Spec2Model ----
(***************************************************************************)
(* Model of the personal-finance application: the relational store        *)
(* (user, income, expense, budget, user_categories), the REST handlers    *)
(* that write it (POST /api/income, /api/expense, /api/budgets,           *)
(* /api/create-account), the GET /api/reports handler, which issues five  *)
(* queries one after the other, and the page scripts that consume the     *)
(* report (dashboard, report).  The data routes (GET and POST of          *)
(* /api/income, /api/expense, /api/budgets, GET /api/categories) are each *)
(* one step behind authenticateToken; api holds such a request and its    *)
(* answer until the client has read it.                                    *)
(*                                                                         *)
(* Amounts are integers.  A date is the integer yyyymmdd; the zero date   *)
(* 0 is what the store holds for a date it could not parse.  A table is   *)
(* the sequence of its rows in insertion order (the id of a row is its    *)
(* position; no handler updates or deletes a row).                        *)
(***************************************************************************)
EXTENDS Integers, Sequences, FiniteSets

VARIABLES user, income, expense, budget, user_categories, req, api, page

store == <<user, income, expense, budget, user_categories>>
vars == <<user, income, expense, budget, user_categories, req, api, page>>

\* ------------------------------------------------------------------ bounds
\* rows the write routes insert, and rows of a store that is given
MaxRows == 2
MaxSeedRows == 3

\* ------------------------------------------------------------ input domains
Emails == {"a@x", "b@x"}
Sessions == {"s1", "s2"}

\* the page each browser session has open, and the account it logged in with
PageOf(s) == IF s = "s1" THEN "dashboard" ELSE "report"
OwnerOf(s) == "a@x"

\* a token is absent, does not verify, or is a signed token carrying an e-mail
NoToken == "none"
BadToken == "bad"

\* request-body values; "" and 0 are the falsy values of a missing field
SourceInputs == {"", "Job"}
CategoryInputs == {"", "Rent", " Rent", "Food"}
IncomeAmountInputs == {0, 10}
ExpenseAmountInputs == {0, 10, 20}
BudgetAmountInputs == {0, 10, 20}
IncomeDateInputs == {-1, 20240105, 20240128, 20240210, 20241345}
ExpenseDateInputs == {-1, 20240105}

PasswordInputs == {"", "pw"}
CadenceInputs == {"monthly"}

\* request bodies: every field present, or one of the required fields missing
IncomeBodies ==
  {b \in [source : SourceInputs, amount : IncomeAmountInputs,
          cadence : CadenceInputs, date : IncomeDateInputs] :
     Cardinality({f \in {"s", "a", "d"} :
        \/ f = "s" /\ b.source = ""
        \/ f = "a" /\ b.amount = 0
        \/ f = "d" /\ b.date = -1}) <= 1}

ExpenseBodies ==
  {b \in [category : CategoryInputs, description : {""},
          amount : ExpenseAmountInputs, date : ExpenseDateInputs,
          cadence : CadenceInputs] :
     Cardinality({f \in {"c", "a", "d"} :
        \/ f = "c" /\ b.category = ""
        \/ f = "a" /\ b.amount = 0
        \/ f = "d" /\ b.date = -1}) <= 1}

BudgetBodies ==
  {b \in [category : CategoryInputs, amount : BudgetAmountInputs,
          cadence : CadenceInputs] : b.category # "" \/ b.amount # 0}

\* !v for a string, a number and a date string (-1 stands for the empty one)
TruthyStr(v) == v # ""
TruthyNum(v) == v # 0
TruthyDate(v) == v # -1

\* String.prototype.trim on the strings of the input domains
Trim(s) == IF s = " Rent" THEN "Rent" ELSE s

\* what a DATE column holds for a date literal: the date, or the zero date
ValidDate(d) ==
  /\ d > 0
  /\ (d \div 100) % 100 \in 1..12
  /\ d % 100 \in 1..31
StoreDate(d) == IF ValidDate(d) THEN d ELSE 0

\* ------------------------------------------------------------- SQL helpers
RECURSIVE SumAmount(_)
SumAmount(rows) ==
  IF rows = <<>> THEN 0 ELSE Head(rows).amount + SumAmount(Tail(rows))

\* SUM(amount): NULL over no rows
SqlSum(rows) ==
  IF rows = <<>> THEN [isNull |-> TRUE, val |-> 0]
  ELSE [isNull |-> FALSE, val |-> SumAmount(rows)]

IfNull(x, d) == IF x.isNull THEN d ELSE x.val

WhereUser(tbl, email) == SelectSeq(tbl, LAMBDA r : r.user_email = email)

\* mutant: grouping by the day instead of the month
DateFormatYm01_Day(d) == d

\* DATE_FORMAT(date, '%Y-%m-01'), as the integer yyyymm01
DateFormatYm01(d) == (d \div 100) * 100 + 1

\* every arrangement of the finite set S as a sequence
Perms(S) ==
  {f \in [1..Cardinality(S) -> S] :
     \A i, j \in 1..Cardinality(S) : i # j => f[i] # f[j]}

\* the arrangements of S in ascending order of key (several when keys tie)
Orderings(S, key) ==
  {f \in Perms(S) : \A i, j \in 1..Cardinality(S) : i < j => key[f[i]] <= key[f[j]]}

\* ------------------------------------------------------ Date in JavaScript
\* An instant is the integer yyyymmddhh of its UTC calendar fields; a time zone
\* is its offset from UTC in hours (no daylight saving).
Leap(y) == y % 4 = 0 /\ (y % 100 # 0 \/ y % 400 = 0)

DaysIn(y, m) ==
  IF m = 2 THEN (IF Leap(y) THEN 29 ELSE 28)
  ELSE IF m \in {4, 6, 9, 11} THEN 30 ELSE 31

Stamp(y, m, d, h) == ((y * 100 + m) * 100 + d) * 100 + h
StampYear(t) == t \div 1000000
StampMonth(t) == (t \div 10000) % 100
StampDay(t) == (t \div 100) % 100
StampHour(t) == t % 100

\* the calendar fields k hours later (earlier for k < 0), -24 < k < 24
AddHours(t, k) ==
  LET y == StampYear(t)
      m == StampMonth(t)
      d == StampDay(t)
      h == StampHour(t) + k
  IN IF h < 0
       THEN IF d > 1 THEN Stamp(y, m, d - 1, h + 24)
            ELSE IF m > 1 THEN Stamp(y, m - 1, DaysIn(y, m - 1), h + 24)
            ELSE Stamp(y - 1, 12, 31, h + 24)
     ELSE IF h >= 24
       THEN IF d < DaysIn(y, m) THEN Stamp(y, m, d + 1, h - 24)
            ELSE IF m < 12 THEN Stamp(y, m + 1, 1, h - 24)
            ELSE Stamp(y + 1, 1, 1, h - 24)
     ELSE Stamp(y, m, d, h)

\* the local fields of an instant in a zone, and the instant of local fields
ToLocal(t, zone) == AddHours(t, zone)
FromLocal(l, zone) == AddHours(l, 0 - zone)

\* d.setMonth(d.getMonth() - k) on local fields: the day of the month is
\* kept, and a day the month does not have runs over into the next month
SetMonthBack(l, k) ==
  LET idx == StampYear(l) * 12 + (StampMonth(l) - 1) - k
      y == idx \div 12
      m == (idx % 12) + 1
      d == StampDay(l)
      h == StampHour(l)
  IN IF d <= DaysIn(y, m) THEN Stamp(y, m, d, h)
     ELSE IF m < 12 THEN Stamp(y, m + 1, d - DaysIn(y, m), h)
     ELSE Stamp(y + 1, 1, d - DaysIn(y, m), h)

\* res.json of a DATE column holding a calendar date: mysql2 reads it as the
\* Date of midnight in the zone of the server and JSON writes its instant
JsonDate(d, zone) == FromLocal(d * 100, zone)

\* new Date(v) of a JSON value: null (0 here) is the epoch, a string that is
\* no date (a negative number here) is an Invalid Date
NewDate(v) == IF v = 0 THEN Stamp(1970, 1, 1, 0) ELSE v

\* mutant: an Invalid Date is not told from a date
IsNaNDate_Never(d) == FALSE

\* isNaN(d)
IsNaNDate(d) == d < 0

\* new Date(`${ym}-01`): a date-only string is midnight UTC
FirstOfMonthUtc(ym) == Stamp(ym \div 100, ym % 100, 1, 0)

\* `${d.getFullYear()}-${pad2(d.getMonth()+1)}` as the integer yyyymm
YearMonth(d, zone) == ToLocal(d, zone) \div 10000

\* the zones of the servers and of the browsers
Zones == {-6, 0, 9}

\* res.json({ items: rows }) of the rows of a table with a DATE column
ItemsJson(items, zone) ==
  [i \in DOMAIN items |-> [items[i] EXCEPT !.date = JsonDate(@, zone)]]

\* the chips data-range-income / data-range-expense, and parseInt of them
RangeInputs == {"1", "3", "6", "ALL"}
ParseInt(range) == CASE range = "1" -> 1 [] range = "3" -> 3 [] range = "6" -> 6

\* Object.keys(map).sort() on keys 'YYYY-MM'
SortAsc(S) == CHOOSE f \in Perms(S) :
                \A i, j \in 1..Cardinality(S) : i < j => f[i] < f[j]

\* const cutoff = new Date(maxDate); cutoff.setMonth(cutoff.getMonth() - (n - 1))
Cutoff(maxDate, n, zone) ==
  FromLocal(SetMonthBack(ToLocal(maxDate, zone), n - 1), zone)

\* mutant: every row is counted once more when its cadence is monthly
AmountOfRow_Projected(r) == IF r.cadence = "monthly" THEN 2 * r.amount ELSE r.amount

\* Number(r.amount || 0)
AmountOfRow(r) == r.amount

RECURSIVE SumRows(_)
SumRows(rows) ==
  IF rows = <<>> THEN 0 ELSE AmountOfRow(Head(rows)) + SumRows(Tail(rows))

\* aggregateByMonth(rows) of the income page (incomeRange) and of the expense
\* page (expenseRange), in a browser of the given zone
AggregateByMonth(rows, range, zone) ==
  LET valid == SelectSeq(rows, LAMBDA r : ~IsNaNDate(NewDate(r.date)))
      Ym(r) == YearMonth(NewDate(r.date), zone)
      keys == {Ym(valid[i]) : i \in DOMAIN valid}
      map == [k \in keys |-> SumRows(SelectSeq(valid, LAMBDA r : Ym(r) = k))]
      dates == {NewDate(valid[i].date) : i \in DOMAIN valid}
      maxDate == CHOOSE d \in dates : \A e \in dates : e <= d
      all == SortAsc(keys)
      labels == IF range # "ALL" /\ keys # {}
                  THEN SelectSeq(all, LAMBDA ym :
                         FirstOfMonthUtc(ym) >= Cutoff(maxDate, ParseInt(range), zone))
                  ELSE all
  IN [labels |-> labels, data |-> [i \in DOMAIN labels |-> map[labels[i]]]]

\* ------------------------------------------------------------------- rows
IncomeRow(email, source, amount, cadence, date) ==
  [user_email |-> email, source |-> source, amount |-> amount,
   cadence |-> cadence, date |-> date]

ExpenseRow(email, category, description, amount, date, cadence) ==
  [user_email |-> email, category |-> category, description |-> description,
   amount |-> amount, date |-> date, cadence |-> cadence]

BudgetRow(email, category, amount, cadence) ==
  [user_email |-> email, category |-> category, amount |-> amount,
   cadence |-> cadence]

RowCount == Len(income) + Len(expense) + Len(budget)

\* ------------------------------------------------------- the report queries
\* mutant: the WHERE clause forgotten
TotalIncomeQuery_AllUsers(tbl, email) == IfNull(SqlSum(tbl), 0)

\* SELECT IFNULL(SUM(amount),0) AS income FROM income WHERE user_email=?
TotalIncomeQuery(tbl, email) == IfNull(SqlSum(WhereUser(tbl, email)), 0)

\* SELECT IFNULL(SUM(amount),0) AS expenses FROM expense WHERE user_email=?
TotalExpensesQuery(tbl, email) == IfNull(SqlSum(WhereUser(tbl, email)), 0)

\* SELECT DATE_FORMAT(date,'%Y-%m-01') AS date, SUM(amount) AS total
\* FROM income WHERE user_email=? GROUP BY DATE_FORMAT(date,'%Y-%m-01')
MonthlyGroups(tbl, email) ==
  LET rows == WhereUser(tbl, email)
  IN {[date |-> k,
       total |-> SumAmount(SelectSeq(rows, LAMBDA r : DateFormatYm01(r.date) = k))] :
        k \in {DateFormatYm01(rows[i].date) : i \in DOMAIN rows}}

\* ... ORDER BY date
MonthlyIncomeQuery(tbl, email) ==
  Orderings(MonthlyGroups(tbl, email),
            [g \in MonthlyGroups(tbl, email) |-> g.date])

\* SELECT category, SUM(amount) AS total FROM <tbl> WHERE user_email=?
\* GROUP BY category
CategoryGroups(tbl, email) ==
  LET rows == WhereUser(tbl, email)
  IN {[category |-> c,
       total |-> SumAmount(SelectSeq(rows, LAMBDA r : r.category = c))] :
        c \in {rows[i].category : i \in DOMAIN rows}}

\* mutant: ORDER BY total, ascending
ExpensesByCategoryQuery_Asc(tbl, email) ==
  Orderings(CategoryGroups(tbl, email),
            [g \in CategoryGroups(tbl, email) |-> g.total])

\* expenses by category: ... ORDER BY total DESC.  Rows of equal total come in
\* an order the statement does not fix.
ExpensesByCategoryQuery(tbl, email) ==
  Orderings(CategoryGroups(tbl, email),
            [g \in CategoryGroups(tbl, email) |-> 0 - g.total])

\* mutant: budgets joined to the expenses, a category without expense is lost
BudgetsByCategoryQuery_Joined(tbl, email) ==
  Perms({g \in CategoryGroups(tbl, email) :
           \E i \in DOMAIN expense :
             expense[i].user_email = email /\ expense[i].category = g.category})

\* budgets by category: no ORDER BY, the rows come in any order
BudgetsByCategoryQuery(tbl, email) == Perms(CategoryGroups(tbl, email))

\* bud.reduce((s, r) => s + Number(r.total), 0)
RECURSIVE SumTotal(_)
SumTotal(rows) ==
  IF rows = <<>> THEN 0 ELSE Head(rows).total + SumTotal(Tail(rows))

\* mutant: net computed the wrong way round
ReportPayload_NetReversed(inc, exp, monthlyInc, cats, bud) ==
  [totals |-> [income |-> inc, expenses |-> exp, net |-> exp - inc],
   monthlyIncome |-> monthlyInc,
   expensesByCategory |-> cats,
   budgets |-> [total |-> SumTotal(bud), byCategory |-> bud]]

\* the object handed to res.json
ReportPayload(inc, exp, monthlyInc, cats, bud) ==
  [totals |-> [income |-> inc, expenses |-> exp, net |-> inc - exp],
   monthlyIncome |-> monthlyInc,
   expensesByCategory |-> cats,
   budgets |-> [total |-> SumTotal(bud), byCategory |-> bud]]

NoPayload == ReportPayload(0, 0, <<>>, <<>>, <<>>)

\* ------------------------------------------------------------ request state
NoRes == [status |-> 0, message |-> "", body |-> NoPayload]
Failure(status, message) == [status |-> status, message |-> message, body |-> NoPayload]
Success(body) == [status |-> 200, message |-> "", body |-> body]

\* the table lengths each query of a request saw (every table only grows, so
\* the rows a query read are the first n rows of the table as it is now)
Seen0 == [b0 |-> 0, inc |-> 0, exp |-> 0, mon |-> 0, cat |-> 0, bud |-> 0]

\* a text node: "No data" or a formatted amount
NoDataText == [nodata |-> TRUE, usd |-> 0]
Fmt(n) == [nodata |-> FALSE, usd |-> n]

\* the data of a budget-vs-actual bar chart; no chart drawn
NoChart == [labels |-> <<>>, budgetVals |-> <<>>, actualVals |-> <<>>]

\* the data of the budget-usage chart; no chart drawn
NoPie == [labels |-> <<>>, spent |-> <<>>, budgets |-> <<>>]

NoView ==
  [kpiIncome |-> NoDataText, kpiExpenses |-> NoDataText, kpiBudget |-> NoDataText,
   kpiNet |-> NoDataText, charts |-> {}, budgetVsActual |-> NoChart,
   spendingPieFull |-> NoPie,
   redirected |-> FALSE, alerted |-> FALSE, uncaught |-> FALSE]

IdleReq ==
  [pc |-> "idle", token |-> NoToken, inc |-> 0, exp |-> 0,
   monthlyInc |-> <<>>, cats |-> <<>>, bud |-> <<>>, seen |-> Seen0,
   conn |-> 0, res |-> NoRes, view |-> NoView]

\* a request without a JSON body
NoBody ==
  [source |-> "", category |-> "", description |-> "", amount |-> 0, date |-> -1,
   cadence |-> "", user_email |-> "", missing |-> {}]

\* no data-route request is waiting for its answer to be read
NoApi ==
  [method |-> "", route |-> "", hdr |-> <<>>, id |-> 0, body |-> NoBody,
   status |-> 0, message |-> "", items |-> <<>>, conn |-> 0]

\* let chart: no trend chart before renderChart has run
NoTrend == [drawn |-> FALSE, labels |-> <<>>, data |-> <<>>]

\* no submit handler of the form is running
NoSubmit == [stage |-> "none", kind |-> "", id |-> 0, body |-> NoBody,
             hdr |-> <<>>, status |-> 0]

\* the income page before its script has run: let incomeRowsCache = [],
\* let incomeRange = '6', no chart, an empty table and an empty hidden id, in
\* a browser of zone 0.  loads are the calls of load() in the order they were
\* made, log the requests the submit handler has sent; undefinedCache says
\* that incomeRowsCache holds undefined, uncaught that an exception reached
\* the top of a handler.
NoPage ==
  [zone |-> 0, incomeRange |-> "6", incomeRowsCache |-> <<>>, chart |-> NoTrend,
   undefinedCache |-> FALSE, table |-> <<>>, incomeId |-> 0,
   token |-> NoToken, location |-> "/income", loads |-> <<>>,
   submit |-> NoSubmit, log |-> <<>>, uncaught |-> FALSE]

Init ==
  /\ user = {}
  /\ income = <<>>
  /\ expense = <<>>
  /\ budget = <<>>
  /\ user_categories = {}
  /\ req = [s \in Sessions |-> IdleReq]
  /\ api = NoApi
  /\ page = NoPage

UserEmails == {u.email : u \in user}

\* bcrypt.hash(password, 10)
Hash(password) == <<"bcrypt", password>>

\* ------------------------------------------------------------ write routes
\* POST /api/create-account
CreateAccount(email, password) ==
  /\ IF ~TruthyStr(email) \/ ~TruthyStr(password)
       THEN UNCHANGED user                                   \* 400
       ELSE IF email \in UserEmails
         THEN UNCHANGED user                                 \* 409 ER_DUP_ENTRY
         ELSE \/ user' = user \cup {[email |-> email, password |-> Hash(password)]}
              \/ UNCHANGED user                              \* 500
  /\ UNCHANGED <<income, expense, budget, user_categories, req>>

\* POST /api/income, for a request that passed authenticateToken as `email`
PostIncome(email, source, amount, cadence, date) ==
  /\ email \in UserEmails
  /\ IF ~TruthyStr(source) \/ ~TruthyNum(amount) \/ ~TruthyDate(date)
       THEN UNCHANGED income                                 \* 400
       ELSE \/ /\ RowCount < MaxRows
               /\ income' = Append(income,
                    IncomeRow(email, Trim(source), amount, cadence, StoreDate(date)))
            \/ UNCHANGED income                              \* 500
  /\ UNCHANGED <<user, expense, budget, user_categories, req>>

\* POST /api/expense
PostExpense(email, category, description, amount, date, cadence) ==
  /\ email \in UserEmails
  /\ IF ~TruthyStr(category) \/ ~TruthyNum(amount) \/ ~TruthyDate(date)
       THEN UNCHANGED expense                                \* 400
       ELSE \/ /\ RowCount < MaxRows
               /\ expense' = Append(expense,
                    ExpenseRow(email, Trim(category), description, amount,
                               StoreDate(date), cadence))
            \/ UNCHANGED expense                             \* 500
  /\ UNCHANGED <<user, income, budget, user_categories, req>>

\* mutant: a budget of a category the user already has replaces the old row
PostBudget_Overwrite(email, category, amount, cadence) ==
  /\ email \in UserEmails
  /\ category # "" /\ amount # 0
  /\ LET old == {i \in DOMAIN budget : budget[i].user_email = email
                                         /\ budget[i].category = Trim(category)}
         row == BudgetRow(email, Trim(category), amount, cadence)
     IN IF old = {}
          THEN RowCount < MaxRows /\ budget' = Append(budget, row)
          ELSE budget' = [i \in DOMAIN budget |-> IF i \in old THEN row ELSE budget[i]]
  /\ user_categories' = user_categories \cup {<<email, Trim(category)>>}
  /\ UNCHANGED <<user, income, expense, req>>

\* POST /api/budgets: the budget row, then INSERT IGNORE of the category
PostBudget(email, category, amount, cadence) ==
  /\ email \in UserEmails
  /\ IF ~TruthyStr(category) \/ ~TruthyNum(amount)
       THEN UNCHANGED <<budget, user_categories>>            \* 400
       ELSE \/ /\ RowCount < MaxRows
               /\ budget' = Append(budget,
                    BudgetRow(email, Trim(category), amount, cadence))
               /\ \/ user_categories' =
                       user_categories \cup {<<email, Trim(category)>>}
                  \/ UNCHANGED user_categories               \* 500 at the 2nd insert
            \/ UNCHANGED <<budget, user_categories>>         \* 500 at the 1st insert
  /\ UNCHANGED <<user, income, expense, req>>

\* ---------------------------------------------------- GET /api/reports
\* localStorage holds no token, one that no longer verifies, or the one
\* POST /api/login signed for the session's account
Tokens(s) == {NoToken, BadToken} \cup ({OwnerOf(s)} \cap UserEmails)

\* a page script calls fetch("/api/reports") with the token it holds; the
\* report page asks for /api/budgets at the same moment
ApiGetReport(s, token) ==
  /\ req[s].pc \in {"idle", "rendered"}
  /\ req' = [req EXCEPT ![s] =
       [IdleReq EXCEPT !.pc = "auth", !.token = token,
                       !.seen.b0 = IF PageOf(s) = "report" THEN Len(budget) ELSE 0]]
  /\ UNCHANGED <<store, api, page>>

\* req.conn counts the connections opened for the request and not ended
Respond(r, res) ==
  [r EXCEPT !.pc = "responded", !.res = res, !.inc = 0, !.exp = 0,
            !.monthlyInc = <<>>, !.cats = <<>>, !.bud = <<>>, !.conn = 0]

\* the connections the catch block of a handler finds open and leaves open
ConnLeft(status) == IF status = 500 THEN {0, 1} ELSE {0}

\* authenticateToken: the header, jwt.verify, then the lookup in user
AuthOutcomes(token) ==
  IF token = NoToken THEN {Failure(401, "No authentication token.")}
  ELSE IF token = BadToken THEN {Failure(401, "Invalid or expired token.")}
  ELSE {Failure(500, "Database error.")} \cup
       (IF token \in UserEmails THEN {NoRes} ELSE {Failure(403, "User not found.")})

AuthenticateToken(s) ==
  /\ req[s].pc = "auth"
  /\ \E out \in AuthOutcomes(req[s].token) :
       \E c \in ConnLeft(out.status) :
         req' = [req EXCEPT ![s] =
           IF out = NoRes THEN [@ EXCEPT !.pc = "qInc"]
           ELSE [Respond(@, out) EXCEPT !.conn = c]]
  /\ UNCHANGED <<store, api, page>>

QueryTotalIncome(s) ==
  /\ req[s].pc = "qInc"
  /\ req' = [req EXCEPT ![s] =
       [@ EXCEPT !.pc = "qExp", !.seen.inc = Len(income), !.conn = 1,
                 !.inc = TotalIncomeQuery(income, req[s].token)]]
  /\ UNCHANGED <<store, api, page>>

\* mutant: the e-mail of the query is kept in a variable all requests share
QueryTotalExpenses_SharedUser(s) ==
  /\ req[s].pc = "qExp"
  /\ LET busy == {t \in Sessions \ {s} :
                    req[t].pc \in {"qInc", "qExp", "qMon", "qCat", "qBud"}}
         email == IF busy = {} THEN req[s].token
                  ELSE req[CHOOSE t \in busy : TRUE].token
     IN req' = [req EXCEPT ![s] =
          [@ EXCEPT !.pc = "qMon", !.seen.exp = Len(expense),
                    !.exp = TotalExpensesQuery(expense, email)]]
  /\ UNCHANGED <<store, api, page>>

QueryTotalExpenses(s) ==
  /\ req[s].pc = "qExp"
  /\ req' = [req EXCEPT ![s] =
       [@ EXCEPT !.pc = "qMon", !.seen.exp = Len(expense),
                 !.exp = TotalExpensesQuery(expense, req[s].token)]]
  /\ UNCHANGED <<store, api, page>>

\* mutant: the handler gives up when the table changed since its first query
QueryMonthlyIncome_Strict(s) ==
  /\ req[s].pc = "qMon"
  /\ Len(income) = req[s].seen.inc
  /\ \E rows \in MonthlyIncomeQuery(income, req[s].token) :
       req' = [req EXCEPT ![s] =
         [@ EXCEPT !.pc = "qCat", !.seen.mon = Len(income), !.monthlyInc = rows]]
  /\ UNCHANGED <<store, api, page>>

QueryMonthlyIncome(s) ==
  /\ req[s].pc = "qMon"
  /\ \E rows \in MonthlyIncomeQuery(income, req[s].token) :
       req' = [req EXCEPT ![s] =
         [@ EXCEPT !.pc = "qCat", !.seen.mon = Len(income), !.monthlyInc = rows]]
  /\ UNCHANGED <<store, api, page>>

QueryExpensesByCategory(s) ==
  /\ req[s].pc = "qCat"
  /\ \E rows \in ExpensesByCategoryQuery(expense, req[s].token) :
       req' = [req EXCEPT ![s] =
         [@ EXCEPT !.pc = "qBud", !.seen.cat = Len(expense), !.cats = rows]]
  /\ UNCHANGED <<store, api, page>>

\* mutant: the report handler records the categories it saw
QueryBudgetsAndRespond_Saving(s) ==
  /\ req[s].pc = "qBud"
  /\ \E rows \in BudgetsByCategoryQuery(budget, req[s].token) :
       /\ req' = [req EXCEPT ![s] =
            Respond([@ EXCEPT !.seen.bud = Len(budget)],
                    Success(ReportPayload(@.inc, @.exp, @.monthlyInc, @.cats, rows)))]
       /\ user_categories' = user_categories \cup
            {<<req[s].token, rows[i].category>> : i \in DOMAIN rows}
  /\ UNCHANGED <<user, income, expense, budget, api, page>>

\* the last query, conn.end() and res.json(...)
QueryBudgetsAndRespond(s) ==
  /\ req[s].pc = "qBud"
  /\ \E rows \in BudgetsByCategoryQuery(budget, req[s].token) :
       req' = [req EXCEPT ![s] =
         Respond([@ EXCEPT !.seen.bud = Len(budget)],
                 Success(ReportPayload(@.inc, @.exp, @.monthlyInc, @.cats, rows)))]
  /\ UNCHANGED <<store, api, page>>

\* the catch block: createConnection, a query or conn.end() threw
ReportError(s) ==
  /\ req[s].pc \in {"qInc", "qExp", "qMon", "qCat", "qBud"}
  /\ \E c \in (IF req[s].pc = "qInc" THEN {0, 1} ELSE {1}) :
       req' = [req EXCEPT ![s] =
         [Respond([@ EXCEPT !.seen = [Seen0 EXCEPT !.b0 = req[s].seen.b0]],
                  Failure(500, "Error building report.")) EXCEPT !.conn = c]]
  /\ UNCHANGED <<store, api, page>>

\* ------------------------------------------------------- GET /api/budgets
\* binary order of the stored category strings
CatRank(c) == CASE c = "Food" -> 1 [] c = "Rent" -> 2 [] OTHER -> 0

\* SELECT id, category, amount, cadence, created_at FROM budget
\* WHERE user_email=? ORDER BY category
ListBudgetsQuery(tbl, email) ==
  LET items == {[id |-> i, category |-> tbl[i].category, amount |-> tbl[i].amount,
                 cadence |-> tbl[i].cadence] :
                   i \in {j \in DOMAIN tbl : tbl[j].user_email = email}}
  IN Orderings(items, [b \in items |-> CatRank(b.category)])

RECURSIVE SumAmountOrTotal(_)
SumAmountOrTotal(rows) ==
  IF rows = <<>> THEN 0 ELSE Head(rows).amount + SumAmountOrTotal(Tail(rows))

\* what apiListBudgets resolves to: data.items || [].  The answer was built
\* at some moment between the call and now.
ApiListBudgets(r) ==
  {<<>>} \cup
  (IF r.token \in UserEmails
     THEN UNION {ListBudgetsQuery(SubSeq(budget, 1, k), r.token) :
                   k \in r.seen.b0..Len(budget)}
     ELSE {})

\* ------------------------------------------------------- the data routes
\* the Authorization header, split at its blanks
HeaderInputs ==
  {<<"">>, <<"Bearer", "">>, <<"Basic", "a@x">>, <<"Bearer", "a@x", "x">>,
   <<"Bearer", "bad">>, <<"Bearer", "gone@x">>, <<"Bearer", "a@x">>,
   <<"Bearer", "b@x">>}

\* mutant: the scheme of the header is not looked at
BearerToken_AnyScheme(hdr) ==
  IF Len(hdr) = 2 /\ hdr[2] # "" THEN hdr[2] ELSE NoToken

\* parts.length === 2 && parts[0] === "Bearer" ? parts[1] : null
BearerToken(hdr) ==
  IF Len(hdr) = 2 /\ hdr[1] = "Bearer" /\ hdr[2] # "" THEN hdr[2] ELSE NoToken

\* a JSON body: its fields, and the names of those it leaves out
ApiBodies ==
  {b \in [source : {"Job"}, category : {"Rent", "Food"}, description : {""},
          amount : {-5, 0, 10}, date : {20240105}, cadence : {"monthly", "yearly"},
          user_email : {"", "b@x"},
          missing : {{}, {"source"}, {"category"}, {"amount"}, {"date"}}] :
     /\ (b.missing # {} \/ b.user_email # "" \/ b.cadence # "monthly")
          => (b.amount = 10 /\ b.category = "Rent")
     /\ b.cadence # "monthly" => (b.missing = {} /\ b.user_email = "")}

\* the value destructuring gives a handler for a field: undefined is falsy
FieldStr(b, f) == IF f \in b.missing THEN "" ELSE b[f]
FieldNum(b, f) == IF f \in b.missing THEN 0 ELSE b[f]
FieldDate(b, f) == IF f \in b.missing THEN -1 ELSE b[f]

\* the bodies a request is tried with: all of them under the header of the
\* first account, one complete body under every other header
BodiesUnder(hdr, required) ==
  IF hdr = <<"Bearer", "a@x">>
    THEN {b \in ApiBodies : b.missing \subseteq required}
    ELSE {b \in ApiBodies : b.missing = {} /\ b.user_email = "" /\ b.amount = 10
                              /\ b.category = "Rent" /\ b.cadence = "monthly"}

Answer(method, route, hdr, id, body, status, message, items) ==
  [method |-> method, route |-> route, hdr |-> hdr, id |-> id, body |-> body,
   status |-> status, message |-> message, items |-> items, conn |-> 0]

\* the answer of a handler with the connections it has opened and not ended:
\* conn.end() is awaited on the way to every answer but the one of the catch
\* block, which is reached with no connection (createConnection threw) or
\* with the connection whose statement threw
Leaving(answer, c) == [answer EXCEPT !.conn = IF answer.status = 500 THEN c ELSE 0]

\* mutant: the WHERE clause of the list forgotten
ListIncomeQuery_AllUsers(tbl, email) ==
  LET items == {[id |-> i, user_email |-> tbl[i].user_email,
                 source |-> tbl[i].source, amount |-> tbl[i].amount,
                 cadence |-> tbl[i].cadence, date |-> tbl[i].date] :
                   i \in DOMAIN tbl}
  IN Orderings(items, [r \in items |-> 0 - r.date])

\* SELECT * FROM income WHERE user_email=? ORDER BY date DESC
ListIncomeQuery(tbl, email) ==
  LET items == {[id |-> i, user_email |-> tbl[i].user_email,
                 source |-> tbl[i].source, amount |-> tbl[i].amount,
                 cadence |-> tbl[i].cadence, date |-> tbl[i].date] :
                   i \in {j \in DOMAIN tbl : tbl[j].user_email = email}}
  IN Orderings(items, [r \in items |-> 0 - r.date])

\* SELECT * FROM expense WHERE user_email=? ORDER BY date DESC
ListExpenseQuery(tbl, email) ==
  LET items == {[id |-> i, user_email |-> tbl[i].user_email,
                 category |-> tbl[i].category, description |-> tbl[i].description,
                 amount |-> tbl[i].amount, date |-> tbl[i].date,
                 cadence |-> tbl[i].cadence] :
                   i \in {j \in DOMAIN tbl : tbl[j].user_email = email}}
  IN Orderings(items, [r \in items |-> 0 - r.date])

BuiltIn ==
  <<"Rent", "Utilities", "Food/Groceries", "Transportation", "Entertainment",
    "Health", "Other">>

\* SELECT category FROM user_categories WHERE user_email=?, after the built-in
CategoriesQuery(tbl, email) ==
  {BuiltIn \o custom : custom \in Perms({uc[2] : uc \in {x \in tbl : x[1] = email}})}

\* the client awaits the answer of a request before it sends the next one, and
\* it sends its data requests before it opens the dashboard
ClientIdle ==
  /\ api = NoApi
  /\ \A s \in Sessions : req[s].pc = "idle"

\* a GET route: authenticateToken, then the query and res.json({ items })
GetRoute(route, hdr, results, error) ==
  /\ ClientIdle
  /\ \E out \in AuthOutcomes(BearerToken(hdr)), c \in {0, 1} :
       IF out # NoRes
         THEN api' = Leaving(Answer("GET", route, hdr, 0, NoBody,
                                    out.status, out.message, <<>>), c)
         ELSE \/ \E rows \in results :
                   api' = Answer("GET", route, hdr, 0, NoBody, 200, "", rows)
              \/ api' = Leaving(Answer("GET", route, hdr, 0, NoBody, 500, error, <<>>), c)
  /\ UNCHANGED <<store, req, page>>

GetIncome(hdr) ==
  GetRoute("/api/income", hdr, ListIncomeQuery(income, BearerToken(hdr)),
           "Error retrieving income.")

GetExpense(hdr) ==
  GetRoute("/api/expense", hdr, ListExpenseQuery(expense, BearerToken(hdr)),
           "Error retrieving expenses.")

GetBudgets(hdr) ==
  GetRoute("/api/budgets", hdr, ListBudgetsQuery(budget, BearerToken(hdr)),
           "Error retrieving budgets.")

GetCategories(hdr) ==
  GetRoute("/api/categories", hdr, CategoriesQuery(user_categories, BearerToken(hdr)),
           "Error loading categories.")

\* what a POST route answers: authenticateToken's refusal, 400, 201 with the
\* insertId, or 500
PostAnswer(route, hdr, body, rejected, insertId, error) ==
  IF rejected THEN Answer("POST", route, hdr, 0, body, 400, "Missing fields.", <<>>)
  ELSE IF insertId # 0 THEN Answer("POST", route, hdr, insertId, body, 201, "", <<>>)
  ELSE Answer("POST", route, hdr, 0, body, 500, error, <<>>)

\* POST /api/income behind authenticateToken
ApiPostIncome(hdr, body) ==
  /\ ClientIdle
  /\ UNCHANGED page
  /\ \E out \in AuthOutcomes(BearerToken(hdr)), c \in {0, 1} :
       IF out # NoRes
         THEN /\ api' = Leaving(Answer("POST", "/api/income", hdr, 0, body,
                                       out.status, out.message, <<>>), c)
              /\ UNCHANGED <<store, req>>
         ELSE /\ PostIncome(BearerToken(hdr), FieldStr(body, "source"),
                            FieldNum(body, "amount"), body.cadence, FieldDate(body, "date"))
              /\ api' = Leaving(PostAnswer("/api/income", hdr, body,
                           \/ ~TruthyStr(FieldStr(body, "source"))
                           \/ ~TruthyNum(FieldNum(body, "amount"))
                           \/ ~TruthyDate(FieldDate(body, "date")),
                           IF income' # income THEN Len(income') ELSE 0,
                           "Error creating income."), c)

\* POST /api/expense behind authenticateToken
ApiPostExpense(hdr, body) ==
  /\ ClientIdle
  /\ UNCHANGED page
  /\ \E out \in AuthOutcomes(BearerToken(hdr)), c \in {0, 1} :
       IF out # NoRes
         THEN /\ api' = Leaving(Answer("POST", "/api/expense", hdr, 0, body,
                                       out.status, out.message, <<>>), c)
              /\ UNCHANGED <<store, req>>
         ELSE /\ PostExpense(BearerToken(hdr), FieldStr(body, "category"),
                             body.description, FieldNum(body, "amount"),
                             FieldDate(body, "date"), body.cadence)
              /\ api' = Leaving(PostAnswer("/api/expense", hdr, body,
                           \/ ~TruthyStr(FieldStr(body, "category"))
                           \/ ~TruthyNum(FieldNum(body, "amount"))
                           \/ ~TruthyDate(FieldDate(body, "date")),
                           IF expense' # expense THEN Len(expense') ELSE 0,
                           "Error creating expense."), c)

\* POST /api/budgets behind authenticateToken; the second insert may fail
\* after the first one was committed
ApiPostBudget(hdr, body) ==
  /\ ClientIdle
  /\ UNCHANGED page
  /\ \E out \in AuthOutcomes(BearerToken(hdr)), c \in {0, 1} :
       IF out # NoRes
         THEN /\ api' = Leaving(Answer("POST", "/api/budgets", hdr, 0, body,
                                       out.status, out.message, <<>>), c)
              /\ UNCHANGED <<store, req>>
         ELSE /\ PostBudget(BearerToken(hdr), FieldStr(body, "category"),
                            FieldNum(body, "amount"), body.cadence)
              /\ \E saved \in {TRUE, FALSE} :
                   /\ saved => <<BearerToken(hdr), Trim(FieldStr(body, "category"))>>
                                 \in user_categories'
                   /\ ~saved => (budget' = budget \/
                                 <<BearerToken(hdr), Trim(FieldStr(body, "category"))>>
                                   \in user_categories \/
                                 user_categories' = user_categories)
                   /\ api' = Leaving(PostAnswer("/api/budgets", hdr, body,
                                \/ ~TruthyStr(FieldStr(body, "category"))
                                \/ ~TruthyNum(FieldNum(body, "amount")),
                                IF budget' # budget /\ saved THEN Len(budget') ELSE 0,
                                "Error creating budget."),
                                IF budget' # budget THEN 1 ELSE c)

\* a request no route of the server matches: Express answers 404 and no
\* middleware of a route runs
NoRoute(method, route, hdr, id, body) ==
  /\ ClientIdle
  /\ api' = Answer(method, route, hdr, id, body, 404, "Cannot " \o method, <<>>)
  /\ UNCHANGED <<store, req, page>>

\* the client has the answer (await r.json()) and is free to ask again
ReadAnswer ==
  /\ api # NoApi
  /\ api' = NoApi
  /\ UNCHANGED <<store, req, page>>

\* the bodies POST /api/login is tried with: an e-mail, a password, and the
\* names of the fields left out
LoginBodies ==
  {b \in [email : Emails, password : {"pw", "no"},
          missing : {{}, {"email"}, {"password"}}] : TRUE}

\* bcrypt.compare(password, hash)
Compare(password, hash) == Hash(password) = hash

\* jwt.sign({ email }, secret, { expiresIn: "1h" }): a token is the e-mail
\* that jwt.verify reads from it
JwtSign(email) == email

\* the answers POST /api/login can give over the user table usr.  The
\* statement throws when the database fails or when the e-mail it is bound
\* to is undefined; bcrypt.compare throws when the password is undefined,
\* after conn.end().
LoginAnswers(usr, body) ==
  LET rows == {u \in usr : u.email = body.email}
      row == CHOOSE u \in rows : TRUE
      Failed(c) == [status |-> 500, message |-> "Login failed.", items |-> <<>>,
                    conn |-> c]
      Refused == [status |-> 401, message |-> "Invalid email or password.",
                  items |-> <<>>, conn |-> 0]
  IN {Failed(0), Failed(1)} \cup
     (IF "email" \in body.missing THEN {}
      ELSE IF rows = {} THEN {Refused}
      ELSE IF "password" \in body.missing THEN {Failed(0)}
      ELSE IF ~Compare(body.password, row.password) THEN {Refused}
      ELSE {[status |-> 200, message |-> "",
             items |-> <<[token |-> JwtSign(body.email)]>>, conn |-> 0]})

\* POST /api/login
Login(body) ==
  /\ ClientIdle
  /\ \E a \in LoginAnswers(user, body) :
       api' = [Answer("POST", "/api/login", <<>>, 0, body,
                      a.status, a.message, a.items) EXCEPT !.conn = a.conn]
  /\ UNCHANGED <<store, req, page>>

\* the client's updateIncome, deleteIncome, updateExpense, deleteExpense
UpdateIncome(hdr, id, body) == NoRoute("PATCH", "/api/income/:id", hdr, id, body)
DeleteIncome(hdr, id) == NoRoute("DELETE", "/api/income/:id", hdr, id, NoBody)
UpdateExpense(hdr, id, body) == NoRoute("PATCH", "/api/expense/:id", hdr, id, body)
DeleteExpense(hdr, id) == NoRoute("DELETE", "/api/expense/:id", hdr, id, NoBody)

\* ------------------------------------------------------------ page scripts
\* the parsed body has the report's fields only when the handler sent them
HasReport(res) == res.status = 200

\* Array.from(new Set(seq)): the first occurrence of every element, in order
RECURSIVE Distinct(_)
Distinct(seq) ==
  IF seq = <<>> THEN <<>>
  ELSE LET init == Distinct(SubSeq(seq, 1, Len(seq) - 1))
           last == seq[Len(seq)]
       IN IF \E i \in DOMAIN init : init[i] = last THEN init ELSE Append(init, last)

\* rows.map((r) => r.category)
Categories(rows) == [i \in DOMAIN rows |-> rows[i].category]

\* rows.find((r) => r.category === cat), as the position of the row (0: none)
Find(rows, cat) ==
  IF \E i \in DOMAIN rows : rows[i].category = cat
    THEN CHOOSE i \in DOMAIN rows :
           /\ rows[i].category = cat
           /\ \A j \in 1..(i - 1) : rows[j].category # cat
    ELSE 0

\* r.total || r.amount || 0 for a row that has either field
TotalOrAmount(r) ==
  IF "total" \in DOMAIN r /\ r.total # 0 THEN r.total
  ELSE IF "amount" \in DOMAIN r /\ r.amount # 0 THEN r.amount
  ELSE 0

\* mutant: only the categories that have a budget are drawn
SetupBudgetVsActualChart_BudgetsOnly(budgets, expenses) ==
  LET categories == Distinct(Categories(budgets))
  IN [labels |-> categories,
      budgetVals |-> [i \in DOMAIN categories |->
         budgets[Find(budgets, categories[i])].total],
      actualVals |-> [i \in DOMAIN categories |->
         IF Find(expenses, categories[i]) = 0 THEN 0
         ELSE expenses[Find(expenses, categories[i])].total]]

\* setupBudgetVsActualChart of the dashboard page
SetupBudgetVsActualChart(budgets, expenses) ==
  LET categories == Distinct(Categories(budgets) \o Categories(expenses))
  IN [labels |-> categories,
      budgetVals |-> [i \in DOMAIN categories |->
         IF Find(budgets, categories[i]) = 0 THEN 0
         ELSE budgets[Find(budgets, categories[i])].total],
      actualVals |-> [i \in DOMAIN categories |->
         IF Find(expenses, categories[i]) = 0 THEN 0
         ELSE expenses[Find(expenses, categories[i])].total]]

\* renderBudgetVsActual of the report page
RenderBudgetVsActual(budgetsByCategory, expensesByCategory) ==
  LET cats == Distinct(Categories(budgetsByCategory) \o Categories(expensesByCategory))
  IN [labels |-> cats,
      budgetVals |-> [i \in DOMAIN cats |->
         IF Find(budgetsByCategory, cats[i]) = 0 THEN 0
         ELSE TotalOrAmount(budgetsByCategory[Find(budgetsByCategory, cats[i])])],
      actualVals |-> [i \in DOMAIN cats |->
         IF Find(expensesByCategory, cats[i]) = 0 THEN 0
         ELSE expensesByCategory[Find(expensesByCategory, cats[i])].total]]

\* loadDashboard, from the answer of apiGetReport on
DashboardView(res) ==
  LET data == res.body
      budgetTotal == IF HasReport(res) THEN SumTotal(data.budgets.byCategory) ELSE 0
  IN [kpiIncome |-> IF HasReport(res) /\ data.totals.income > 0
                      THEN Fmt(data.totals.income) ELSE NoDataText,
      kpiExpenses |-> IF HasReport(res) /\ data.totals.expenses > 0
                        THEN Fmt(data.totals.expenses) ELSE NoDataText,
      kpiBudget |-> IF budgetTotal > 0 THEN Fmt(budgetTotal) ELSE NoDataText,
      kpiNet |-> NoDataText,
      \* data.budgets.byCategory throws a TypeError when data.budgets is undefined
      charts |-> IF HasReport(res) THEN {"income", "category", "budgetVsActual"}
                 ELSE {"income", "category"},
      budgetVsActual |->
        IF HasReport(res)
          THEN SetupBudgetVsActualChart(data.budgets.byCategory, data.expensesByCategory)
          ELSE NoChart,
      spendingPieFull |-> NoPie,
      redirected |-> res.status = 401,
      alerted |-> FALSE,
      uncaught |-> ~HasReport(res)]

\* what is left of a request once the page script has returned: the page,
\* and the status line of the answer it was drawn from
Rendered(r, view) ==
  [r EXCEPT !.pc = "rendered", !.res = Failure(r.res.status, r.res.message),
            !.seen = Seen0, !.conn = 0, !.view = view]

LoadDashboard(s) ==
  /\ req[s].pc = "responded"
  /\ PageOf(s) = "dashboard"
  /\ req' = [req EXCEPT ![s] = Rendered(@, DashboardView(@.res))]
  /\ UNCHANGED <<store, api, page>>

\* budgetsArray.forEach((b) => { budgetsObj[b.category] = Number(b.amount ...) }):
\* a later row of a category replaces the amount an earlier one put there
BudgetsObj(budgetsArray) ==
  [c \in {budgetsArray[i].category : i \in DOMAIN budgetsArray} |->
     LET last == CHOOSE i \in DOMAIN budgetsArray :
                   /\ budgetsArray[i].category = c
                   /\ \A j \in DOMAIN budgetsArray :
                        budgetsArray[j].category = c => j <= i
     IN budgetsArray[last].amount]

\* renderSpendingPieFull: budgets = labels.map((cat) => Number(budgetsObj[cat] || 0))
RenderSpendingPieFull(expCats, budgetsObj) ==
  [labels |-> Categories(expCats),
   spent |-> [i \in DOMAIN expCats |-> expCats[i].total],
   budgets |-> [i \in DOMAIN expCats |->
      IF expCats[i].category \in DOMAIN budgetsObj
        THEN budgetsObj[expCats[i].category] ELSE 0]]

\* renderKPIs(report.totals || {}, budgetsArray || [])
ReportView(res, budgetsArray) ==
  LET incomeV == IF HasReport(res) THEN res.body.totals.income ELSE 0
      expensesV == IF HasReport(res) THEN res.body.totals.expenses ELSE 0
      net == IF HasReport(res) THEN res.body.totals.net ELSE incomeV - expensesV
      budgetTotal == SumAmountOrTotal(budgetsArray)
  IN [kpiIncome |-> IF incomeV # 0 THEN Fmt(incomeV) ELSE NoDataText,
      kpiExpenses |-> IF expensesV # 0 THEN Fmt(expensesV) ELSE NoDataText,
      kpiBudget |-> IF budgetTotal # 0 THEN Fmt(budgetTotal) ELSE NoDataText,
      kpiNet |-> IF net # 0 THEN Fmt(net) ELSE NoDataText,
      charts |-> {"spendingPie", "incomeTrend", "budgetVsActual",
                  "expenseDoughnut", "spendingPieFull"},
      \* report.budgets?.byCategory || budgetsArray || []
      budgetVsActual |->
        IF HasReport(res)
          THEN RenderBudgetVsActual(res.body.budgets.byCategory,
                                    res.body.expensesByCategory)
          ELSE RenderBudgetVsActual(budgetsArray, <<>>),
      spendingPieFull |->
        RenderSpendingPieFull(
          IF HasReport(res) THEN res.body.expensesByCategory ELSE <<>>,
          BudgetsObj(budgetsArray)),
      redirected |-> res.status = 401,
      alerted |-> FALSE,
      uncaught |-> FALSE]

\* loadReport, from the answers of apiGetReport and apiListBudgets on
LoadReport(s) ==
  /\ req[s].pc = "responded"
  /\ PageOf(s) = "report"
  /\ \E budgetsArray \in ApiListBudgets(req[s]) :
       req' = [req EXCEPT ![s] = Rendered(@, ReportView(@.res, budgetsArray))]
  /\ UNCHANGED <<store, api, page>>

\* ---- the income page (income.js); the expense page (expense.js) has the
\* ---- same script over /api/expense, expenseRowsCache and expenseRange
\* renderChart(rows): the chart is destroyed and built again from the series
RenderChart(rows, range, zone) ==
  LET series == AggregateByMonth(rows, range, zone)
  IN [drawn |-> TRUE, labels |-> series.labels, data |-> series.data]

\* the last line of load(): renderChart(rows) with the rows just cached
RenderTrend ==
  /\ ~page.chart.drawn
  /\ page' = [page EXCEPT
       !.chart = RenderChart(page.incomeRowsCache, page.incomeRange, page.zone)]
  /\ UNCHANGED <<store, req, api>>

\* a click on a range chip
ClickRange(range) ==
  /\ page.chart.drawn
  /\ page' = [page EXCEPT
       !.incomeRange = range,
       !.chart = RenderChart(page.incomeRowsCache, range, page.zone)]
  /\ UNCHANGED <<store, req, api>>

\* the calls of load() and the submits of one visit of the page
MaxLoadCalls == 2
MaxSubmits == 2

\* auth(): the Authorization header for the token localStorage holds
AuthHeader(token) == IF token = NoToken THEN <<"">> ELSE <<"Bearer", token>>

\* what the user has put into the form: a source, an amount, a date
FormBodies ==
  {[NoBody EXCEPT !.source = "Job", !.amount = a, !.date = 20240105,
                  !.cadence = "monthly"] : a \in {0, 10}}

\* load() up to its await: listIncome has sent GET /api/income
StartLoad(p, owner) ==
  [p EXCEPT !.loads = Append(@, [stage |-> "sent", hdr |-> AuthHeader(p.token),
                                 status |-> 0, rows |-> <<>>, owner |-> owner])]

\* a click on the refresh button
ClickRefresh ==
  /\ page.location = "/income"
  /\ Len(page.loads) < MaxLoadCalls
  /\ page' = StartLoad(page, "click")
  /\ UNCHANGED <<store, req, api>>

\* the server answers the GET /api/income of the k-th load
ListIncome(k) ==
  /\ k \in DOMAIN page.loads
  /\ page.loads[k].stage = "sent"
  /\ \E out \in AuthOutcomes(BearerToken(page.loads[k].hdr)) :
       IF out # NoRes
         THEN page' = [page EXCEPT !.loads[k].stage = "answered",
                                   !.loads[k].status = out.status]
         ELSE \/ \E rows \in ListIncomeQuery(income, BearerToken(page.loads[k].hdr)) :
                   page' = [page EXCEPT !.loads[k].stage = "answered",
                                        !.loads[k].status = 200,
                                        !.loads[k].rows = ItemsJson(rows, 0)]
              \/ page' = [page EXCEPT !.loads[k].stage = "answered",
                                      !.loads[k].status = 500]
  /\ UNCHANGED <<store, req, api>>

\* the submit handler after await load(): the form is reset
FormReset(p, owner) ==
  IF owner = "submit" THEN [p EXCEPT !.incomeId = 0, !.submit = NoSubmit] ELSE p

\* the submit handler ends with the exception load() threw
SubmitEnds(p, owner) ==
  IF owner = "submit" THEN [p EXCEPT !.submit = NoSubmit] ELSE p

\* the answer of the k-th load arrives: the rest of listIncome and of load().
\* On 401 logout() runs and listIncome returns undefined, which load() stores
\* and hands to renderTable, where rows.length throws.
LoadArrives(k) ==
  /\ page.location = "/income"
  /\ k \in DOMAIN page.loads
  /\ page.loads[k].stage = "answered"
  /\ LET l == page.loads[k]
         done == [page EXCEPT !.loads[k].stage = "done"]
     IN page' =
          IF l.status = 401
            THEN SubmitEnds([done EXCEPT !.token = NoToken, !.location = "/",
                                         !.undefinedCache = TRUE,
                                         !.incomeRowsCache = <<>>,
                                         !.uncaught = TRUE], l.owner)
          ELSE IF l.status # 200
            THEN SubmitEnds([done EXCEPT !.uncaught = TRUE], l.owner)
          ELSE FormReset([done EXCEPT
                 !.incomeRowsCache = l.rows,
                 !.undefinedCache = FALSE,
                 !.table = l.rows,
                 !.chart = RenderChart(l.rows, page.incomeRange, page.zone)],
                 l.owner)
  /\ UNCHANGED <<store, req, api>>

\* mutant: the submit handler never looks at the hidden id
SubmitForm_AlwaysCreate(body) ==
  /\ page.location = "/income"
  /\ page.submit.stage = "none"
  /\ Len(page.log) < MaxSubmits
  /\ page' = [page EXCEPT
       !.submit = [stage |-> "sent", kind |-> "create", id |-> page.incomeId,
                   body |-> body, hdr |-> AuthHeader(page.token), status |-> 0],
       !.log = Append(@, [kind |-> "create", id |-> page.incomeId])]
  /\ UNCHANGED <<store, req, api>>

\* the form is submitted: updateIncome(id, body) when the hidden id is set,
\* createIncome(body) otherwise
SubmitForm(body) ==
  /\ page.location = "/income"
  /\ page.submit.stage = "none"
  /\ Len(page.log) < MaxSubmits
  /\ LET kind == IF page.incomeId # 0 THEN "update" ELSE "create"
     IN page' = [page EXCEPT
          !.submit = [stage |-> "sent", kind |-> kind, id |-> page.incomeId,
                      body |-> body, hdr |-> AuthHeader(page.token), status |-> 0],
          !.log = Append(@, [kind |-> kind, id |-> page.incomeId])]
  /\ UNCHANGED <<store, req, api>>

\* the server answers the request of the submit handler: PATCH has no route,
\* POST /api/income runs behind authenticateToken
ServeSubmit ==
  /\ page.submit.stage = "sent"
  /\ UNCHANGED api
  /\ LET sub == page.submit
         Answered_(status) == [page EXCEPT !.submit.stage = "answered",
                                          !.submit.status = status]
     IN IF sub.kind = "update"
          THEN page' = Answered_(404) /\ UNCHANGED <<store, req>>
          ELSE \E out \in AuthOutcomes(BearerToken(sub.hdr)) :
                 IF out # NoRes
                   THEN page' = Answered_(out.status) /\ UNCHANGED <<store, req>>
                   ELSE /\ PostIncome(BearerToken(sub.hdr), sub.body.source,
                                      sub.body.amount, sub.body.cadence, sub.body.date)
                        /\ page' = Answered_(
                             IF ~TruthyNum(sub.body.amount) THEN 400
                             ELSE IF income' # income THEN 201 ELSE 500)

\* the answer arrives at createIncome / updateIncome and the submit handler
\* goes on: logout() on 401, an exception on another failure, load() otherwise.
\* After logout() the browser leaves the page and nothing reads the answer of
\* the load the handler still starts.
SubmitArrives ==
  /\ page.location = "/income"
  /\ page.submit.stage = "answered"
  /\ IF page.submit.status = 401
       THEN page' = [page EXCEPT !.token = NoToken, !.location = "/",
                                 !.submit = NoSubmit]
     ELSE IF page.submit.status \notin {200, 201}
       THEN page' = [page EXCEPT !.uncaught = TRUE, !.submit = NoSubmit]
     ELSE /\ Len(page.loads) < MaxLoadCalls
          /\ page' = StartLoad([page EXCEPT !.submit.stage = "loading"], "submit")
  /\ UNCHANGED <<store, req, api>>

\* a click on Edit in the i-th row of the table
EditRow(i) ==
  /\ page.location = "/income"
  /\ ~page.undefinedCache
  /\ i \in DOMAIN page.table
  /\ LET found == {j \in DOMAIN page.incomeRowsCache :
                     page.incomeRowsCache[j].id = page.table[i].id}
     IN page' = IF found = {} THEN page
                ELSE [page EXCEPT !.incomeId =
                        page.incomeRowsCache[CHOOSE j \in found :
                                               \A m \in found : j <= m].id]
  /\ UNCHANGED <<store, req, api>>

\* a click on the reset button
ResetForm ==
  /\ page.location = "/income"
  /\ page' = [page EXCEPT !.incomeId = 0]
  /\ UNCHANGED <<store, req, api>>

\* the token signed at login is valid for one hour
TokenExpires ==
  /\ page.token \in UserEmails
  /\ page' = [page EXCEPT !.token = BadToken]
  /\ UNCHANGED <<store, req, api>>

\* ------------------------------------------------------------ budget page
\* the transactions one visit of the budget page may add
MaxTransactions == 2

\* handleTransactionSubmit is not running
NoPending == [stage |-> "none", type |-> "", category |-> "", amount |-> 0,
              hdr |-> <<>>, status |-> 0]

\* the budget page after DOMContentLoaded: let transactions = [], an empty
\* #transaction-list; reloads counts the calls of loadEverything made since
BudgetPage ==
  [token |-> "a@x", location |-> "/budget-tracker", transactions |-> <<>>,
   list |-> <<>>, pending |-> NoPending, reloads |-> 0, uncaught |-> FALSE]

\* the fields of the transaction form: #type, #trans-category, #amount
TransactionInputs ==
  [type : {"income", "expense"}, category : {"", "Rent"}, amount : {0, 10}]

\* renderTransactions: one li per transaction, each put before the others
RECURSIVE RenderTransactions(_)
RenderTransactions(ts) ==
  IF ts = <<>> THEN <<>>
  ELSE Append(RenderTransactions(Tail(ts)), Head(ts))

\* handleTransactionSubmit up to its await: the fields are checked and
\* apiCreateIncome or apiCreateExpense sends the request
HandleTransactionSubmit(in) ==
  /\ page.location = "/budget-tracker"
  /\ page.pending.stage = "none"
  /\ Len(page.transactions) < MaxTransactions
  /\ page' = IF in.category = "" \/ in.amount <= 0
               THEN page                                     \* alert
               ELSE [page EXCEPT !.pending =
                       [stage |-> "sent", type |-> in.type,
                        category |-> in.category, amount |-> in.amount,
                        hdr |-> AuthHeader(page.token), status |-> 0]]
  /\ UNCHANGED <<store, req, api>>

\* the server answers the create request of the budget page, or the request
\* fails on the way and fetch rejects
ServeTransaction ==
  /\ page.pending.stage = "sent"
  /\ UNCHANGED api
  /\ LET p == page.pending
         Got(status) == [page EXCEPT !.pending.stage = "answered",
                                    !.pending.status = status]
     IN \/ /\ page' = [page EXCEPT !.pending.stage = "failed"]
           /\ UNCHANGED <<store, req>>
        \/ \E out \in AuthOutcomes(BearerToken(p.hdr)) :
             IF out # NoRes
               THEN page' = Got(out.status) /\ UNCHANGED <<store, req>>
               ELSE IF p.type = "income"
                 THEN /\ PostIncome(BearerToken(p.hdr), p.category, p.amount,
                                    "monthly", 20240105)
                      /\ page' = Got(IF income' # income THEN 201 ELSE 500)
                 ELSE /\ PostExpense(BearerToken(p.hdr), p.category, "", p.amount,
                                     20240105, "monthly")
                      /\ page' = Got(IF expense' # expense THEN 201 ELSE 500)

\* transactions.push({ type, category, amount })
PushTransaction(p) ==
  [p EXCEPT !.transactions =
     Append(@, [type |-> p.pending.type, category |-> p.pending.category,
                amount |-> p.pending.amount])]

\* handleTransactionSubmit after its await: the response is not looked at;
\* the transaction is pushed and rendered and loadEverything is called.  A
\* rejected fetch ends the handler with its exception.
TransactionArrives ==
  /\ page.location = "/budget-tracker"
  /\ page.pending.stage \in {"answered", "failed"}
  /\ page' = IF page.pending.stage = "failed"
               THEN [page EXCEPT !.pending = NoPending, !.uncaught = TRUE]
               ELSE LET pushed == PushTransaction(page)
                    IN [pushed EXCEPT
                          !.list = RenderTransactions(pushed.transactions),
                          !.reloads = @ + 1,
                          !.pending = NoPending]
  /\ UNCHANGED <<store, req, api>>

\* --------------------------------------------------------- specifications
\* the GET /api/reports handler serving the request of session s
Handler(s) ==
  \/ AuthenticateToken(s)
  \/ QueryTotalIncome(s)
  \/ QueryTotalExpenses(s)
  \/ QueryMonthlyIncome(s)
  \/ QueryExpensesByCategory(s)
  \/ QueryBudgetsAndRespond(s)
  \/ ReportError(s)

\* request bodies each account posts: every body for the account whose report
\* is read, one valid body per route for the other account
IncomeBodiesOf(email) ==
  IF email = "a@x" THEN IncomeBodies
  ELSE {b \in IncomeBodies :
          b.source = "Job" /\ b.amount = 10 /\ b.date = 20240105}

ExpenseBodiesOf(email) ==
  IF email = "a@x" THEN ExpenseBodies
  ELSE {b \in ExpenseBodies :
          b.category = "Rent" /\ b.amount = 20 /\ b.date = 20240105}

BudgetBodiesOf(email) ==
  IF email = "a@x" THEN BudgetBodies
  ELSE {b \in BudgetBodies : b.category = "Rent" /\ b.amount = 20}

\* the write routes, called by clients whose answers are not looked at
Writes ==
  \/ /\ \E e \in Emails, p \in PasswordInputs : CreateAccount(e, p)
     /\ UNCHANGED <<api, page>>
  \/ /\ \E e \in Emails : \E b \in IncomeBodiesOf(e) :
          PostIncome(e, b.source, b.amount, b.cadence, b.date)
     /\ UNCHANGED <<api, page>>
  \/ /\ \E e \in Emails : \E b \in ExpenseBodiesOf(e) :
          PostExpense(e, b.category, b.description, b.amount, b.date, b.cadence)
     /\ UNCHANGED <<api, page>>
  \/ /\ \E e \in Emails : \E b \in BudgetBodiesOf(e) :
          PostBudget(e, b.category, b.amount, b.cadence)
     /\ UNCHANGED <<api, page>>

\* the server with its write routes, and the dashboard page of one browser
Next ==
  \/ Writes
  \/ \E token \in Tokens("s1") : ApiGetReport("s1", token)
  \/ Handler("s1")
  \/ LoadDashboard("s1")

Spec == Init /\ [][Next]_vars

\* ---- two pages of one account, dashboard and report, over a store that no
\* ---- request writes meanwhile
Account(email) == [email |-> email, password |-> Hash("pw")]

SeqsUpTo(S, n) == UNION {[1..k -> S] : k \in 0..n}

OwnIncomeRows(email) ==
  {IncomeRow(email, Trim(b.source), b.amount, b.cadence, StoreDate(b.date)) :
     b \in {x \in IncomeBodiesOf(email) :
              x.source # "" /\ x.amount # 0 /\ x.date # -1}}

OwnExpenseRows(email) ==
  {ExpenseRow(email, Trim(b.category), b.description, b.amount,
              StoreDate(b.date), b.cadence) :
     b \in {x \in ExpenseBodiesOf(email) :
              x.category # "" /\ x.amount # 0 /\ x.date # -1}}

OwnBudgetRows(email) ==
  {BudgetRow(email, Trim(b.category), b.amount, b.cadence) :
     b \in {x \in BudgetBodiesOf(email) : x.category # "" /\ x.amount # 0}}

InitPair ==
  /\ user = {Account(e) : e \in Emails}
  /\ income \in SeqsUpTo(OwnIncomeRows("a@x"), MaxSeedRows)
  /\ expense \in SeqsUpTo(OwnExpenseRows("a@x"), MaxSeedRows)
  /\ budget \in SeqsUpTo(OwnBudgetRows("a@x"), MaxSeedRows)
  /\ RowCount <= MaxSeedRows
  /\ user_categories =
       {<<budget[i].user_email, budget[i].category>> : i \in DOMAIN budget}
  /\ req = [s \in Sessions |-> IdleReq]
  /\ api = NoApi
  /\ page = NoPage

NextPair ==
  \/ \E s \in Sessions : \E token \in Tokens(s) : ApiGetReport(s, token)
  \/ \E s \in Sessions : Handler(s)
  \/ LoadDashboard("s1")
  \/ LoadReport("s2")

SpecPair == InitPair /\ [][NextPair]_vars

\* ---- the report requests of two accounts, each from its own browser, over
\* ---- a store that no request writes meanwhile
UserOf(s) == IF s = "s1" THEN "a@x" ELSE "b@x"

InitUsers ==
  /\ user = {Account(e) : e \in Emails}
  /\ income \in SeqsUpTo(OwnIncomeRows("a@x") \cup OwnIncomeRows("b@x"), MaxRows)
  /\ expense \in SeqsUpTo(OwnExpenseRows("a@x") \cup OwnExpenseRows("b@x"), MaxRows)
  /\ budget \in SeqsUpTo(OwnBudgetRows("a@x") \cup OwnBudgetRows("b@x"), MaxRows)
  /\ RowCount <= MaxRows
  /\ user_categories =
       {<<budget[i].user_email, budget[i].category>> : i \in DOMAIN budget}
  /\ req = [s \in Sessions |-> IdleReq]
  /\ api = NoApi
  /\ page = NoPage

NextUsers ==
  \/ \E s \in Sessions : ApiGetReport(s, UserOf(s))
  \/ \E s \in Sessions : Handler(s)

SpecUsers == InitUsers /\ [][NextUsers]_vars

\* ---- the protected routes, called one request at a time by the clients of
\* ---- two accounts
InitApi ==
  /\ user = {Account(e) : e \in Emails}
  /\ income = <<>>
  /\ expense = <<>>
  /\ budget = <<>>
  /\ user_categories = {}
  /\ req = [s \in Sessions |-> IdleReq]
  /\ api = NoApi
  /\ page = NoPage

OwnerHeaders == {<<"">>, <<"Bearer", "a@x">>}

\* what localStorage may hold when the dashboard asks for the report: nothing,
\* a token that does not verify, the token of an account that was removed,
\* the token of an account
ReportTokens == {NoToken, BadToken, "gone@x", "a@x"}

NextApi ==
  \/ \E hdr \in HeaderInputs : GetIncome(hdr)
  \/ \E hdr \in HeaderInputs : GetExpense(hdr)
  \/ \E hdr \in HeaderInputs : GetBudgets(hdr)
  \/ \E hdr \in HeaderInputs : GetCategories(hdr)
  \/ \E hdr \in HeaderInputs :
       \E body \in BodiesUnder(hdr, {"source", "amount", "date"}) :
         ApiPostIncome(hdr, body)
  \/ \E hdr \in HeaderInputs :
       \E body \in BodiesUnder(hdr, {"category", "amount", "date"}) :
         ApiPostExpense(hdr, body)
  \/ \E hdr \in HeaderInputs :
       \E body \in BodiesUnder(hdr, {"category", "amount"}) :
         ApiPostBudget(hdr, body)
  \/ \E hdr \in OwnerHeaders, id \in 1..MaxRows :
       \E body \in BodiesUnder(<<"">>, {}) : UpdateIncome(hdr, id, body)
  \/ \E hdr \in OwnerHeaders, id \in 1..MaxRows : DeleteIncome(hdr, id)
  \/ \E hdr \in OwnerHeaders, id \in 1..MaxRows :
       \E body \in BodiesUnder(<<"">>, {}) : UpdateExpense(hdr, id, body)
  \/ \E hdr \in OwnerHeaders, id \in 1..MaxRows : DeleteExpense(hdr, id)
  \/ ReadAnswer
  \/ api = NoApi /\ \E token \in ReportTokens : ApiGetReport("s1", token)
  \/ Handler("s1")
  \/ LoadDashboard("s1")

SpecApi == InitApi /\ [][NextApi]_vars

\* ---- the trend chart over a cache of rows that is given
MaxTrendRows == 3

\* the dates of the rows as the servers of two zones write them, a string that
\* is no date, and two amounts
TrendRowInputs ==
  {[date |-> JsonDate(d, z), amount |-> 10, cadence |-> "monthly"] :
     d \in {20240115, 20240301, 20240620, 20240731}, z \in {-6, 0}}
  \cup {[date |-> -1, amount |-> 10, cadence |-> "monthly"],
        [date |-> JsonDate(20240620, 0), amount |-> 5, cadence |-> "monthly"]}

InitMonths ==
  /\ user = {}
  /\ income = <<>>
  /\ expense = <<>>
  /\ budget = <<>>
  /\ user_categories = {}
  /\ req = [s \in Sessions |-> IdleReq]
  /\ api = NoApi
  /\ \E rows \in SeqsUpTo(TrendRowInputs, MaxTrendRows), zone \in Zones :
       page = [NoPage EXCEPT !.zone = zone, !.incomeRowsCache = rows]

NextMonths ==
  \/ RenderTrend
  \/ \E range \in RangeInputs : ClickRange(range)

SpecMonths == InitMonths /\ [][NextMonths]_vars

\* ---- one visit of the income page by a user who is logged in
InitIncome ==
  /\ user = {Account(e) : e \in Emails}
  /\ income = <<>>
  /\ expense = <<>>
  /\ budget = <<>>
  /\ user_categories = {}
  /\ req = [s \in Sessions |-> IdleReq]
  /\ api = NoApi
  /\ page = StartLoad([NoPage EXCEPT !.token = "a@x"], "init")

NextIncome ==
  \/ ClickRefresh
  \/ \E k \in 1..MaxLoadCalls : ListIncome(k)
  \/ \E k \in 1..MaxLoadCalls : LoadArrives(k)
  \/ \E body \in FormBodies : SubmitForm(body)
  \/ ServeSubmit
  \/ SubmitArrives
  \/ \E i \in 1..MaxRows : EditRow(i)
  \/ ResetForm
  \/ TokenExpires

SpecIncome == InitIncome /\ [][NextIncome]_vars

\* ---- accounts are created and logged into
InitLogin ==
  /\ user = {}
  /\ income = <<>>
  /\ expense = <<>>
  /\ budget = <<>>
  /\ user_categories = {}
  /\ req = [s \in Sessions |-> IdleReq]
  /\ api = NoApi
  /\ page = NoPage

NextLogin ==
  \/ \E email \in Emails, password \in {"pw", "no"} :
       /\ api = NoApi
       /\ CreateAccount(email, password)
       /\ UNCHANGED <<api, page>>
  \/ \E body \in LoginBodies : Login(body)
  \/ ReadAnswer

SpecLogin == InitLogin /\ [][NextLogin]_vars

\* ---- one visit of the budget page by a user who is logged in
InitBudgetPage ==
  /\ user = {Account(e) : e \in Emails}
  /\ income = <<>>
  /\ expense = <<>>
  /\ budget = <<>>
  /\ user_categories = {}
  /\ req = [s \in Sessions |-> IdleReq]
  /\ api = NoApi
  /\ page = BudgetPage

NextBudgetPage ==
  \/ \E in \in TransactionInputs : HandleTransactionSubmit(in)
  \/ ServeTransaction
  \/ TransactionArrives
  \/ TokenExpires

SpecBudgetPage == InitBudgetPage /\ [][NextBudgetPage]_vars

\* ================================================================ properties
\* a report request that was answered with a payload, not yet drawn
Answered(s) == req[s].pc = "responded" /\ req[s].res.status = 200

\* the positions, among the first n rows of tbl, of the rows of one user
RowsOf(tbl, n, email) == {i \in 1..n : tbl[i].user_email = email}

RECURSIVE AmountOver(_, _)
AmountOver(tbl, I) ==
  IF I = {} THEN 0
  ELSE LET i == CHOOSE x \in I : TRUE
       IN tbl[i].amount + AmountOver(tbl, I \ {i})

MonthOf(d) == d \div 100
FirstDayOf(ym) == ym * 100 + 1

\* C1: a successful report has totals.income = the sum of the amounts of the
\* user's income rows, totals.expenses = the sum of the amounts of the user's
\* expense rows and totals.net = their difference; with no rows all are 0.
C1_TotalsAreSums ==
  \A s \in Sessions : Answered(s) =>
    LET r == req[s]
        t == r.res.body.totals
        I == RowsOf(income, r.seen.inc, r.token)
        E == RowsOf(expense, r.seen.exp, r.token)
    IN /\ t.income = AmountOver(income, I)
       /\ t.expenses = AmountOver(expense, E)
       /\ t.net = t.income - t.expenses
       /\ (I = {} /\ E = {}) => (t.income = 0 /\ t.expenses = 0 /\ t.net = 0)

C1_Witness ==
  \E s \in Sessions :
    /\ Answered(s)
    /\ req[s].res.body.totals.income > 0
    /\ req[s].res.body.totals.net < 0

\* C2: monthlyIncome has exactly one entry for every calendar month in which
\* the user has an income row, keyed by the first day of the month, whose
\* total is the sum of that month's rows; no entry is keyed by a month without
\* rows; the keys are strictly ascending.
C2_MonthlyIncomeGrouped ==
  \A s \in Sessions : Answered(s) =>
    LET r == req[s]
        m == r.res.body.monthlyIncome
        I == RowsOf(income, r.seen.mon, r.token)
        InMonth(ym) == {i \in I : ValidDate(income[i].date) /\ MonthOf(income[i].date) = ym}
    IN /\ \A i \in I : ValidDate(income[i].date) =>
            LET ym == MonthOf(income[i].date)
                J == {j \in DOMAIN m : m[j].date = FirstDayOf(ym)}
            IN /\ Cardinality(J) = 1
               /\ \A j \in J : m[j].total = AmountOver(income, InMonth(ym))
       /\ \A j \in DOMAIN m : ValidDate(m[j].date) =>
            /\ m[j].date % 100 = 1
            /\ InMonth(MonthOf(m[j].date)) # {}
       /\ \A j, k \in DOMAIN m : j < k => m[j].date < m[k].date

C2_Witness ==
  \E s \in Sessions :
    /\ Answered(s)
    /\ \E i, j \in RowsOf(income, req[s].seen.mon, req[s].token) :
         /\ income[i].date # income[j].date
         /\ ValidDate(income[i].date)
         /\ MonthOf(income[i].date) = MonthOf(income[j].date)
    /\ Len(req[s].res.body.monthlyIncome) = 1
    /\ req[s].res.body.monthlyIncome[1].total = 20

C4_ByCategorySums ==
  \A s \in Sessions : Answered(s) =>
    LET r == req[s]
        b == r.res.body.budgets
        B == RowsOf(budget, r.seen.bud, r.token)
    IN /\ {b.byCategory[j].category : j \in DOMAIN b.byCategory} =
            {budget[i].category : i \in B}
       /\ \A j, k \in DOMAIN b.byCategory :
            j # k => b.byCategory[j].category # b.byCategory[k].category
       /\ \A j \in DOMAIN b.byCategory :
            b.byCategory[j].total =
              AmountOver(budget, {i \in B : budget[i].category = b.byCategory[j].category})
       /\ b.total = AmountOver(budget, B)

C4_RowsKept ==
  /\ Len(budget') >= Len(budget)
  /\ \A i \in DOMAIN budget : budget'[i] = budget[i]

C4_BudgetsNeverOverwritten == [](C4_ByCategorySums) /\ [][C4_RowsKept]_vars

C4_Witness ==
  \E s \in Sessions :
    /\ Answered(s)
    /\ \E i, j \in RowsOf(budget, req[s].seen.bud, req[s].token) :
         i # j /\ budget[i].category = budget[j].category
    /\ req[s].res.body.budgets.byCategory = <<[category |-> "Rent", total |-> 20]>>
    /\ req[s].res.body.budgets.total = 20

\* C5: the categories of expensesByCategory are exactly the categories of the
\* user's expense rows and the categories of budgets.byCategory exactly those
\* of the user's budget rows, whatever the other table holds.
C5_CategorySetsIndependent ==
  \A s \in Sessions : Answered(s) =>
    LET r == req[s]
        p == r.res.body
    IN /\ {p.expensesByCategory[j].category : j \in DOMAIN p.expensesByCategory} =
            {expense[i].category : i \in RowsOf(expense, r.seen.cat, r.token)}
       /\ {p.budgets.byCategory[j].category : j \in DOMAIN p.budgets.byCategory} =
            {budget[i].category : i \in RowsOf(budget, r.seen.bud, r.token)}

C5_Witness ==
  \E s \in Sessions :
    /\ Answered(s)
    /\ LET p == req[s].res.body
       IN /\ Len(p.expensesByCategory) = 1
          /\ Len(p.budgets.byCategory) = 1
          /\ p.expensesByCategory[1].category # p.budgets.byCategory[1].category

\* the first n rows of tbl with every row of another user deleted
OwnRows(tbl, n, email) ==
  SelectSeq(SubSeq(tbl, 1, n), LAMBDA row : row.user_email = email)

\* C6: the payload a user gets is one the handler returns over the store with
\* every row of every other user deleted.
C6_ScopedToUser ==
  \A s \in Sessions : Answered(s) =>
    LET r == req[s]
        e == r.token
        p == r.res.body
    IN /\ p.totals.income = TotalIncomeQuery(OwnRows(income, r.seen.inc, e), e)
       /\ p.totals.expenses = TotalExpensesQuery(OwnRows(expense, r.seen.exp, e), e)
       /\ p.totals.net = p.totals.income - p.totals.expenses
       /\ p.monthlyIncome \in MonthlyIncomeQuery(OwnRows(income, r.seen.mon, e), e)
       /\ p.expensesByCategory \in
            ExpensesByCategoryQuery(OwnRows(expense, r.seen.cat, e), e)
       /\ p.budgets.byCategory \in
            BudgetsByCategoryQuery(OwnRows(budget, r.seen.bud, e), e)

C6_Witness ==
  \E s \in Sessions :
    /\ Answered(s)
    /\ req[s].res.body.totals.income > 0
    /\ \E i \in 1..req[s].seen.inc : income[i].user_email # req[s].token

\* C7: no step of a report request, answered with a payload or with a
\* failure, changes the user, income, expense, budget or user_categories table.
C7_ReportLeavesStore == [][(req' # req) => (store' = store)]_vars

C7_Witness ==
  \E s \in Sessions :
    /\ req[s].pc = "responded"
    /\ req[s].res.status \in {200, 500}
    /\ Len(income) > 0
    /\ Len(budget) > 0

\* C8: an income row whose date is not a date has no entry in monthlyIncome,
\* and its amount is part of totals.income.
C8_InvalidDateExcluded ==
  \A s \in Sessions : Answered(s) =>
    LET r == req[s]
    IN /\ \A j \in DOMAIN r.res.body.monthlyIncome :
            ValidDate(r.res.body.monthlyIncome[j].date)
       /\ r.res.body.totals.income =
            AmountOver(income, RowsOf(income, r.seen.inc, r.token))

\* C9: two report requests of one user over the same store content are
\* answered with the same payload.
C9_Deterministic ==
  \A s, t \in Sessions :
    (Answered(s) /\ Answered(t) /\ req[s].token = req[t].token)
      => req[s].res.body = req[t].res.body

\* C10: a page drawn from the answer 500 'Error building report.', which the
\* handler gives when the store fails, shows "No data" in the figures it takes
\* from the report and its script ends without an uncaught exception.
C10_FailureShowsNoData ==
  \A s \in Sessions :
    (/\ req[s].pc = "rendered"
     /\ req[s].res.status = 500
     /\ req[s].res.message = "Error building report.") =>
      /\ req[s].view.kpiIncome = NoDataText
      /\ req[s].view.kpiExpenses = NoDataText
      /\ req[s].view.kpiBudget = NoDataText
      /\ ~req[s].view.uncaught

\* the verified token of a data-route request is that of the owner of row id
OwnsRow(tbl, id, hdr) == id \in DOMAIN tbl /\ tbl[id].user_email = BearerToken(hdr)

\* C11: once PATCH /api/<income|expense>/:id of the owner of the row is
\* answered, the row holds the values of the body, and once DELETE is answered
\* the row is no longer in the table.
C11_UpdateAndDeleteApply ==
  /\ (api.method = "DELETE" /\ api.route = "/api/income/:id")
        => ~OwnsRow(income, api.id, api.hdr)
  /\ (api.method = "DELETE" /\ api.route = "/api/expense/:id")
        => ~OwnsRow(expense, api.id, api.hdr)
  /\ (api.method = "PATCH" /\ api.route = "/api/income/:id"
        /\ OwnsRow(income, api.id, api.hdr))
        => /\ income[api.id].source = api.body.source
           /\ income[api.id].amount = api.body.amount
           /\ income[api.id].date = api.body.date
  /\ (api.method = "PATCH" /\ api.route = "/api/expense/:id"
        /\ OwnsRow(expense, api.id, api.hdr))
        => /\ expense[api.id].category = api.body.category
           /\ expense[api.id].amount = api.body.amount
           /\ expense[api.id].date = api.body.date

\* the total of category cat in a by-category sequence, 0 when it is absent
TotalIn(rows, cat) ==
  IF \E i \in DOMAIN rows : rows[i].category = cat
    THEN rows[CHOOSE i \in DOMAIN rows : rows[i].category = cat].total
    ELSE 0

\* C12: the budget-vs-actual chart a page draws from a payload has each
\* category of budgets.byCategory or expensesByCategory exactly once as a
\* label, with its budgets.byCategory total (or 0) as budget value and its
\* expensesByCategory total (or 0) as actual value.
C12_ChartIsUnion ==
  [][\A s \in Sessions : (Answered(s) /\ req'[s].pc = "rendered") =>
       LET b == req[s].res.body.budgets.byCategory
           e == req[s].res.body.expensesByCategory
           ch == req'[s].view.budgetVsActual
           cats == {b[i].category : i \in DOMAIN b} \cup {e[i].category : i \in DOMAIN e}
       IN /\ {ch.labels[i] : i \in DOMAIN ch.labels} = cats
          /\ Len(ch.labels) = Cardinality(cats)
          /\ DOMAIN ch.budgetVals = DOMAIN ch.labels
          /\ DOMAIN ch.actualVals = DOMAIN ch.labels
          /\ \A i \in DOMAIN ch.labels :
               /\ ch.budgetVals[i] = TotalIn(b, ch.labels[i])
               /\ ch.actualVals[i] = TotalIn(e, ch.labels[i])]_vars

C12_Witness ==
  \A s \in Sessions :
    /\ req[s].pc = "rendered"
    /\ req[s].res.status = 200
    /\ Len(req[s].view.budgetVsActual.labels) = 2
    /\ req[s].view.budgetVsActual.budgetVals[1] > 0
    /\ req[s].view.budgetVsActual.budgetVals[2] = 0
    /\ req[s].view.budgetVsActual.actualVals[1] = 0
    /\ req[s].view.budgetVsActual.actualVals[2] > 0

\* C13: the budget the report page shows for a category, drawn from a payload
\* and the complete list of the user's budget rows, is the category's total in
\* budgets.byCategory, the sum of all its rows.
C13_BudgetIsCategorySum ==
  [][\A s \in Sessions :
       (/\ Answered(s)
        /\ req'[s].pc = "rendered"
        /\ PageOf(s) = "report"
        /\ req'[s].view.kpiBudget = Fmt(req[s].res.body.budgets.total)) =>
         LET pie == req'[s].view.spendingPieFull
         IN \A i \in DOMAIN pie.labels :
              pie.budgets[i] = TotalIn(req[s].res.body.budgets.byCategory, pie.labels[i])]_vars

\* the payloads GET /api/reports gives a user when no other request runs
AlonePayloads(email) ==
  {ReportPayload(TotalIncomeQuery(income, email), TotalExpensesQuery(expense, email),
                 m, c, b) :
     m \in MonthlyIncomeQuery(income, email),
     c \in ExpensesByCategoryQuery(expense, email),
     b \in BudgetsByCategoryQuery(budget, email)}

\* C14: whatever the interleaving of the queries of two report requests of
\* different users over a store nobody writes, each request is answered with a
\* payload it could be answered with when it runs alone.
C14_ConcurrentAsAlone ==
  \A s \in Sessions : Answered(s) => req[s].res.body \in AlonePayloads(req[s].token)

C14_Witness ==
  /\ Answered("s1")
  /\ req["s2"].pc = "qCat"
  /\ req["s1"].token # req["s2"].token
  /\ req["s1"].res.body.totals.expenses > 0
  /\ req["s2"].exp > 0
  /\ req["s1"].res.body.totals.expenses # req["s2"].exp

\* C15: a report request whose queries are separated by writes of the same
\* user can still run each of its queries, and every field of its payload is
\* the aggregate of the table as it was when the field's query ran; the
\* queries of one table ran in order, each on the table of its own moment.
C15_StaleReadsAllowed ==
  \A s \in Sessions :
    /\ req[s].pc = "qInc" => ENABLED QueryTotalIncome(s)
    /\ req[s].pc = "qExp" => ENABLED QueryTotalExpenses(s)
    /\ req[s].pc = "qMon" => ENABLED QueryMonthlyIncome(s)
    /\ req[s].pc = "qCat" => ENABLED QueryExpensesByCategory(s)
    /\ req[s].pc = "qBud" => ENABLED QueryBudgetsAndRespond(s)
    /\ Answered(s) =>
         LET r == req[s]
             p == r.res.body
         IN /\ r.seen.inc <= r.seen.mon /\ r.seen.mon <= Len(income)
            /\ r.seen.exp <= r.seen.cat /\ r.seen.cat <= Len(expense)
            /\ r.seen.bud <= Len(budget)
            /\ p.totals.income = TotalIncomeQuery(SubSeq(income, 1, r.seen.inc), r.token)
            /\ p.totals.expenses =
                 TotalExpensesQuery(SubSeq(expense, 1, r.seen.exp), r.token)
            /\ p.monthlyIncome \in
                 MonthlyIncomeQuery(SubSeq(income, 1, r.seen.mon), r.token)
            /\ p.expensesByCategory \in
                 ExpensesByCategoryQuery(SubSeq(expense, 1, r.seen.cat), r.token)
            /\ p.budgets.byCategory \in
                 BudgetsByCategoryQuery(SubSeq(budget, 1, r.seen.bud), r.token)
            /\ p.budgets.total = SumTotal(p.budgets.byCategory)

C15_Witness ==
  \E s \in Sessions :
    /\ Answered(s)
    /\ req[s].seen.inc < req[s].seen.mon
    /\ income[req[s].seen.mon].user_email = req[s].token
    /\ req[s].res.body.totals.income # SumTotal(req[s].res.body.monthlyIncome)

\* C16: every row of the income, expense and budget tables has an amount
\* that is not negative.
C16_AmountsNonNegative ==
  /\ \A i \in DOMAIN income : income[i].amount >= 0
  /\ \A i \in DOMAIN expense : expense[i].amount >= 0
  /\ \A i \in DOMAIN budget : budget[i].amount >= 0

\* the ids of the rows of tbl that belong to email
IdsOf(tbl, email) == {i \in DOMAIN tbl : tbl[i].user_email = email}

\* C17: the list a GET data route answers with holds the rows of the user of
\* the verified token and no other row, GET /api/categories adds to the
\* built-in names that user's categories only, and the row a POST data route
\* creates carries the e-mail of the token, whatever the body says.
C17_DataRoutesScoped ==
  LET email == BearerToken(api.hdr)
      ids == {api.items[i].id : i \in DOMAIN api.items}
  IN /\ (api.method = "GET" /\ api.status = 200 /\ api.route = "/api/income")
          => /\ ids = IdsOf(income, email)
             /\ \A i \in DOMAIN api.items : api.items[i].user_email = email
     /\ (api.method = "GET" /\ api.status = 200 /\ api.route = "/api/expense")
          => /\ ids = IdsOf(expense, email)
             /\ \A i \in DOMAIN api.items : api.items[i].user_email = email
     /\ (api.method = "GET" /\ api.status = 200 /\ api.route = "/api/budgets")
          => ids = IdsOf(budget, email)
     /\ (api.method = "GET" /\ api.status = 200 /\ api.route = "/api/categories")
          => {api.items[i] : i \in (Len(BuiltIn) + 1)..Len(api.items)} =
               {uc[2] : uc \in {x \in user_categories : x[1] = email}}
     /\ (api.method = "POST" /\ api.status = 201 /\ api.route = "/api/income")
          => api.id = Len(income) /\ income[api.id].user_email = email
     /\ (api.method = "POST" /\ api.status = 201 /\ api.route = "/api/expense")
          => api.id = Len(expense) /\ expense[api.id].user_email = email
     /\ (api.method = "POST" /\ api.status = 201 /\ api.route = "/api/budgets")
          => api.id = Len(budget) /\ budget[api.id].user_email = email

C17_Witness ==
  /\ api.method = "GET" /\ api.status = 200 /\ api.route = "/api/income"
  /\ Len(api.items) = 1
  /\ Len(income) = 2
  /\ income[1].user_email # income[2].user_email

\* the header carries a well-formed Bearer credential
WellFormed(hdr) == Len(hdr) = 2 /\ hdr[1] = "Bearer" /\ hdr[2] # ""

\* the answer authenticateToken gives to a credential it refuses; FALSE for a
\* credential it lets through to the handler
RefusedWith(formed, token, status) ==
  IF ~formed \/ token \in {NoToken, BadToken} THEN status = 401
  ELSE IF token \notin UserEmails THEN status \in {403, 500}
  ELSE FALSE

\* C18: on /api/income, /api/expense, /api/budgets, /api/categories and
\* /api/reports a request without a header, with a malformed header or with a
\* token that does not verify is answered 401, and one whose token names no
\* user is answered 403 (500 if the lookup itself fails); a refused request
\* gets no rows, none of the report's queries ran for it, and the step that
\* refuses it leaves every table as it was; an answer of a handler (200, 201,
\* 400, or its own 500) is only given to the token of an existing user.
C18_AuthGuardsRoutes ==
  /\ [](/\ api.method \in {"GET", "POST"} =>
             LET formed == WellFormed(api.hdr)
                 token == IF formed THEN api.hdr[2] ELSE NoToken
             IN /\ (~formed \/ token \notin UserEmails)
                      => /\ RefusedWith(formed, token, api.status)
                         /\ api.items = <<>>
                         /\ api.id = 0
                /\ api.status \in {200, 201, 400}
                      => formed /\ token \in UserEmails
                /\ api.status \in {401, 403} => api.items = <<>> /\ api.id = 0
        /\ \A s \in Sessions :
             req[s].pc = "responded" =>
               LET token == req[s].token
               IN /\ token \notin UserEmails
                       => /\ RefusedWith(TRUE, token, req[s].res.status)
                          /\ req[s].res.body = NoPayload
                          /\ req[s].seen = Seen0
                  /\ req[s].res.status = 200 => token \in UserEmails
                  /\ req[s].res.status \in {401, 403}
                       => req[s].res.body = NoPayload /\ req[s].seen = Seen0)
  /\ [][/\ (api' # api /\ api'.status \in {401, 403}) => store' = store
        /\ \A s \in Sessions :
             (req'[s].pc = "responded" /\ req[s].pc # "responded"
                /\ req'[s].res.status \in {401, 403}) => store' = store]_vars

\* a request with the token of a removed account was refused over tables that
\* hold rows, and so was one whose header names another scheme
C18_Witness ==
  /\ api.method = "POST" /\ api.route = "/api/income"
  /\ api.hdr = <<"Basic", "a@x">>
  /\ api.status = 401
  /\ Len(income) > 0 /\ Len(expense) > 0

\* the fields a create request must carry, by route
RequiredOf(route) ==
  IF route = "/api/income" THEN {"source", "amount", "date"}
  ELSE IF route = "/api/expense" THEN {"category", "amount", "date"}
  ELSE {"category", "amount"}

\* new is old with exactly one row appended
OneMore(old, new) ==
  Len(new) = Len(old) + 1 /\ SubSeq(new, 1, Len(old)) = old

\* C19: a create request that passed authentication and met no database error
\* is answered 400 with every table unchanged when a required field of its
\* route is missing, and is answered 201 with exactly one row added to the
\* table of its route when every required field is present and the amount is
\* a number >= 0, the amount 0 included.
C19_CreateValidation ==
  [][(api = NoApi /\ api'.method = "POST" /\ api'.status \notin {401, 403, 500})
       => LET absent == api'.body.missing \cap RequiredOf(api'.route)
          IN /\ absent # {} => api'.status = 400 /\ store' = store
             /\ (absent = {} /\ api'.body.amount >= 0)
                  => /\ api'.status = 201
                     /\ user' = user
                     /\ IF api'.route = "/api/income"
                          THEN OneMore(income, income')
                          ELSE income' = income
                     /\ IF api'.route = "/api/expense"
                          THEN OneMore(expense, expense')
                          ELSE expense' = expense
                     /\ IF api'.route = "/api/budgets"
                          THEN OneMore(budget, budget')
                          ELSE budget' = budget]_vars

\* the position of the first expense row of category cat among the rows of
\* email that the category query of the request read (0: no such row)
FirstOf(cat, email, n) ==
  LET ids == {i \in 1..n : /\ expense[i].user_email = email
                            /\ expense[i].category = cat}
  IN IF ids = {} THEN 0 ELSE CHOOSE i \in ids : \A j \in ids : i <= j

\* C20: in the expensesByCategory of an answered report, of two categories
\* with equal totals the one whose first expense row was recorded earlier
\* comes first.
C20_StableTieBreak ==
  \A s \in Sessions :
    Answered(s) =>
      LET cats == req[s].res.body.expensesByCategory
      IN \A i, j \in DOMAIN cats :
           (i < j /\ cats[i].total = cats[j].total)
             => FirstOf(cats[i].category, req[s].token, req[s].seen.cat)
                  < FirstOf(cats[j].category, req[s].token, req[s].seen.cat)

\* the rows of a table with every cadence replaced by one value
Recast(tbl) == [i \in DOMAIN tbl |-> [tbl[i] EXCEPT !.cadence = "one-time"]]

\* the payloads GET /api/reports can build for email over the given tables
PayloadsOf(inc, exp, bud, email) ==
  {ReportPayload(TotalIncomeQuery(inc, email), TotalExpensesQuery(exp, email),
                 m, c, b) :
     m \in MonthlyIncomeQuery(inc, email),
     c \in ExpensesByCategoryQuery(exp, email),
     b \in BudgetsByCategoryQuery(bud, email)}

\* C21: the payload of an answered report is one the handler builds over the
\* same tables with every cadence changed, and the monthly series a page
\* draws from an answered list of income or expense rows is the series of
\* the same rows with every cadence changed, for every range, every zone of
\* the server and every zone of the browser.
C21_CadenceIgnored ==
  /\ \A s \in Sessions :
       Answered(s) =>
         req[s].res.body \in
           PayloadsOf(Recast(income), Recast(expense), Recast(budget), req[s].token)
  /\ (/\ api.method = "GET" /\ api.status = 200
      /\ api.route \in {"/api/income", "/api/expense"})
       => \A range \in RangeInputs, sz \in Zones, bz \in Zones :
            AggregateByMonth(ItemsJson(api.items, sz), range, bz) =
              AggregateByMonth(ItemsJson(Recast(api.items), sz), range, bz)

\* a report was answered over an income table holding a yearly and a monthly
\* row of the user
C21_Witness ==
  /\ Answered("s1")
  /\ req["s1"].res.body.totals.income = 20
  /\ \E i, j \in DOMAIN income :
       /\ income[i].cadence = "yearly" /\ income[j].cadence = "monthly"
       /\ income[i].user_email = req["s1"].token
       /\ income[j].user_email = req["s1"].token

\* the rows of the cache whose date is a date, and the local months they fall in
DatedRows == SelectSeq(page.incomeRowsCache, LAMBDA r : r.date >= 0)
MonthsWithRecords ==
  {ToLocal(DatedRows[i].date, page.zone) \div 10000 : i \in DOMAIN DatedRows}

\* the number of the month yyyymm on the scale of all calendar months
MonthIndex(ym) == (ym \div 100) * 12 + (ym % 100)

\* the month of the latest-dated record
LatestMonth ==
  LET latest == CHOOSE i \in DOMAIN DatedRows :
                  \A j \in DOMAIN DatedRows : DatedRows[j].date <= DatedRows[i].date
  IN ToLocal(DatedRows[latest].date, page.zone) \div 10000

\* C22: with the range n the trend chart shows exactly the months with
\* records among the n calendar months that end at the month of the latest
\* record, and with the range ALL it shows every month with a record.
C22_RangeWindow ==
  page.chart.drawn =>
    {page.chart.labels[i] : i \in DOMAIN page.chart.labels} =
      IF page.incomeRange = "ALL" \/ MonthsWithRecords = {}
        THEN MonthsWithRecords
        ELSE {ym \in MonthsWithRecords :
                MonthIndex(ym) > MonthIndex(LatestMonth) - ParseInt(page.incomeRange)}

\* C23: the labels of the series are distinct months in ascending order, there
\* is one value per label, the value of a label is the sum of the amounts of
\* the rows whose date falls in that month, a row whose date is no date is in
\* no sum and under no label, and no rows give an empty series.
C23_SeriesIsMonthlySum ==
  /\ page.chart.drawn =>
       LET labels == page.chart.labels
           data == page.chart.data
       IN /\ \A i, j \in DOMAIN labels : i < j => labels[i] < labels[j]
          /\ DOMAIN data = DOMAIN labels
          /\ \A i \in DOMAIN labels :
               /\ labels[i] \in MonthsWithRecords
               /\ data[i] = SumAmount(SelectSeq(DatedRows, LAMBDA r :
                               ToLocal(r.date, page.zone) \div 10000 = labels[i]))
          /\ page.incomeRowsCache = <<>> => (labels = <<>> /\ data = <<>>)
          /\ page.incomeRange = "ALL" =>
               {labels[i] : i \in DOMAIN labels} = MonthsWithRecords

\* a chart drawn from three rows, two of one month and one whose date is no
\* date
C23_Witness ==
  /\ page.chart.drawn
  /\ page.chart.data = <<15>>
  /\ Len(page.incomeRowsCache) = 3
  /\ \E i \in DOMAIN page.incomeRowsCache : page.incomeRowsCache[i].date < 0

\* C24: a request that has been answered holds no open connection: every
\* connection authenticateToken or the handler opened for it has been ended,
\* whether the answer is a success or a failure.
C24_ConnectionsClosed ==
  /\ api.status # 0 => api.conn = 0
  /\ \A s \in Sessions : req[s].pc = "responded" => req[s].conn = 0

\* C25: when two calls of load() on the income page overlap, then once both
\* have completed the table, the chart and incomeRowsCache hold the rows that
\* were returned to the call started last, whatever the order of the answers,
\* and incomeRowsCache equals the rows of the table.
C25_LastLoadWins ==
  LET n == Len(page.loads)
  IN (/\ n >= 2
      /\ \A k \in 1..n : page.loads[k].stage = "done" /\ page.loads[k].status = 200)
     => /\ page.table = page.loads[n].rows
        /\ page.incomeRowsCache = page.loads[n].rows
        /\ page.chart = RenderChart(page.loads[n].rows, page.incomeRange, page.zone)

\* C26: a step in which a call of the page receives 401 removes the token and
\* sends the browser to '/', and nothing goes on to use the body: no exception
\* is raised and incomeRowsCache keeps an array.
C26_UnauthorizedLeavesCleanly ==
  [][(page.location = "/income" /\ page'.location = "/")
       => /\ page'.token = NoToken
          /\ page'.uncaught = page.uncaught
          /\ ~page'.undefinedCache]_vars

\* C27 (helpers): the step is a submit, the step ends a submit whose load was
\* answered with the rows
SubmitStep == Len(page'.log) = Len(page.log) + 1

SubmitSucceeds ==
  /\ page.submit.stage = "loading"
  /\ page'.submit.stage = "none"
  /\ \E k \in DOMAIN page.loads :
       /\ page.loads[k].owner = "submit"
       /\ page.loads[k].stage = "answered"
       /\ page.loads[k].status = 200
       /\ page'.loads[k].stage = "done"

\* C27: a submit with an empty hidden id sends exactly one create and no
\* update, a submit with an id exactly one update for that id and no create;
\* after a successful submit and after a click on reset the id is empty; the
\* id is only ever set to the id of a row of incomeRowsCache.
C27_SubmitFollowsHiddenId ==
  [][/\ Len(page'.log) \in {Len(page.log), Len(page.log) + 1}
     /\ SubmitStep =>
          /\ SubSeq(page'.log, 1, Len(page.log)) = page.log
          /\ page'.log[Len(page'.log)] =
               [kind |-> IF page.incomeId = 0 THEN "create" ELSE "update",
                id |-> page.incomeId]
          /\ page'.submit.kind = page'.log[Len(page'.log)].kind
     /\ SubmitSucceeds => page'.incomeId = 0
     /\ ResetForm => page'.incomeId = 0
     /\ (page'.incomeId # page.incomeId /\ page'.incomeId # 0) =>
          \E j \in DOMAIN page.incomeRowsCache :
            page.incomeRowsCache[j].id = page'.incomeId]_vars

\* C27 (witness): a create was sent with the id empty, its row was edited and
\* the next submit was the update of that row
C27_Witness ==
  /\ Len(page.log) = 2
  /\ page.log[1] = [kind |-> "create", id |-> 0]
  /\ page.log[2].kind = "update"
  /\ page.log[2].id # 0
  /\ \E j \in DOMAIN page.incomeRowsCache :
       page.incomeRowsCache[j].id = page.log[2].id

\* C29: the list GET /api/categories answers with starts with the seven
\* built-in categories in their fixed order and names no category twice,
\* whatever budgets were created before.
C29_CategoriesOnce ==
  (api.route = "/api/categories" /\ api.status = 200)
    => /\ Len(api.items) >= Len(BuiltIn)
       /\ SubSeq(api.items, 1, Len(BuiltIn)) = BuiltIn
       /\ \A i, j \in DOMAIN api.items : api.items[i] = api.items[j] => i = j

\* C28 (helpers): the login of body succeeds over the user table; what the
\* caller sees of an answer
Matches(usr, body) ==
  /\ body.missing = {}
  /\ \E u \in usr : u.email = body.email /\ Compare(body.password, u.password)

Visible(a) == <<a.status, a.message, a.items>>

\* C28: POST /api/login answers with a token only when the e-mail exists and
\* the password matches its hash, and the token carries that e-mail; an
\* answer to a login that fails for an e-mail is an answer the same request
\* could have got for any other e-mail for which it fails, so the caller does
\* not learn from it whether the e-mail is known.
C28_LoginTellsNothing ==
  (api.route = "/api/login" /\ api.status # 0)
    => /\ api.items # <<>> =>
            /\ Matches(user, api.body)
            /\ api.items = <<[token |-> api.body.email]>>
       /\ \A email \in Emails :
            LET other == [api.body EXCEPT !.email = email]
            IN ("email" \notin api.body.missing /\ ~Matches(user, api.body)
                  /\ ~Matches(user, other))
                 => Visible(api) \in {Visible(a) : a \in LoginAnswers(user, other)}

\* C30 (helper): the server holds a row of the user for the entry
Stored(t) ==
  IF t.type = "income"
    THEN \E i \in DOMAIN income :
           /\ income[i].user_email = "a@x"
           /\ income[i].source = t.category
           /\ income[i].amount = t.amount
    ELSE \E i \in DOMAIN expense :
           /\ expense[i].user_email = "a@x"
           /\ expense[i].category = t.category
           /\ expense[i].amount = t.amount

\* C30: every entry of the transactions list of the budget page, and so every
\* line shown, stands for an income or expense row the server stored, and
\* there are no more entries than stored rows.
C30_ListedMeansStored ==
  /\ \A i \in DOMAIN page.transactions : Stored(page.transactions[i])
  /\ \A i \in DOMAIN page.list : Stored(page.list[i])
  /\ Len(page.transactions) <= Len(income) + Len(expense)

====
